---- MODULE Spec2Model ----
(***************************************************************************)
(* Model of the DVR floating-IP controller (neutron/agent/l3/dvr.py) and   *)
(* of the HA keepalived notification path (neutron/agent/l3/ha.py).        *)
(*                                                                         *)
(* dvr_fip_ns.FipNamespace (rule-priority allocator, subscriber set,       *)
(* link-local subnet pool, destroy), the orchestration that prepares a     *)
(* router for floating IPs, and the metadata driver's monitored-process    *)
(* primitive are not part of the sources; they are modelled from spec.md.  *)
(***************************************************************************)
EXTENDS Integers, Sequences, FiniteSets, TLC

\* ------------------------------------------------------------------ bounds
MaxOps == 7          \* floating-IP controller calls explored in one run
MaxPriorities == 2   \* size of the rule-priority range
MaxNotifs == 3       \* keepalived notifications explored in one run
MaxFaultOps == 4     \* floating-IP calls explored in one run when primitives may fail
MaxConcOps == 6      \* floating-IP calls explored in one run when removals interleave
MaxSnatOps == 3      \* SNAT redirection calls explored in one run
MaxArpOps == 3       \* ARP operations explored in one run
MaxHaOps == 5        \* HA set-up and removal calls explored in one run
MaxObsOps == 5       \* floating-IP calls explored in one run when the caller's view is kept

Routers == {"r1", "r2"}
Fips == {"f1", "f2"}
ExtNets == {"ext1", "ext2"}
Handles == 1..MaxOps     \* every call constructs at most one FipNamespace
Priorities == 1..MaxPriorities
NoHandle == 0
NoPriority == 0

VARIABLES
    fip_namespaces,      \* AgentMixin._fip_namespaces: ext_net_id -> handle, NoHandle when absent
    nobjs,               \* FipNamespace objects constructed so far (handles 1..nobjs)
    fip_ns_objs,         \* handle -> [net, subscribers, free, local_subnets, destroyed]
    agent_local_subnets, \* self.local_subnets of the agent: routers holding a lease of it
    ri_fip_ns,           \* ri.fip_ns: router -> handle
    floating_ips_dict,   \* ri.floating_ips_dict: router -> (fip -> priority, NoPriority when absent)
    dist_fip_count,      \* ri.dist_fip_count
    rtr_fip_subnet,      \* ri.rtr_fip_subnet is not None
    fip_netns,           \* kernel: the namespace fip-<net> exists
    ns_creates,          \* kernel: namespace creations per ext net
    ns_destroys,         \* FipNamespace.destroy() calls per ext net
    assoc,               \* floating IPs added (add returned normally) and not removed since
    ret,                 \* how the last call ended
    ip_rules,            \* kernel, router namespaces: policy rules <<router, match, priority>>
                         \* of table FIP_RT_TBL
    fip_routes,          \* kernel, FIP namespaces: routes <<net, fip_cidr, router>> via the
                         \* router's end of the link
    garps,               \* gratuitous ARPs sent so far: <<net, floating_ip>>
    rtr_gateway,         \* kernel: the router's default route toward the FIP namespace is present
    fip_veth,            \* kernel: the router's link device pair is present
    fault,               \* the primitive that failed in the last call, "none" if none did
    td_log,              \* the teardown statements of 218-231 the last call executed, in order
    nops,                \* calls made so far
    scen                 \* progress of the two-router sharing scenario, -1 once left

dvr_vars == <<fip_namespaces, nobjs, fip_ns_objs, agent_local_subnets, ri_fip_ns,
              floating_ips_dict, dist_fip_count, rtr_fip_subnet, fip_netns,
              ns_creates, ns_destroys, assoc, ret, ip_rules, fip_routes, garps,
              rtr_gateway, fip_veth, fault, td_log, nops, scen>>

\* ---- HA notification path (ha.py)
HaRouters == {"r1", "r2"}
States == {"master", "backup"}
Tokens == States \cup {"fault"}   \* what X-Neutron-State may carry
Handlers == 1..MaxNotifs   \* handler h serves the h-th notification received

VARIABLES
    router_info,     \* agent.router_info: the routers this agent manages
    proxy,           \* a metadata proxy process is running for the router
    nrecv,           \* notifications received so far
    h_router,        \* X-Neutron-Router-Id of the handler's request
    h_state,         \* X-Neutron-State of the handler's request
    h_pc,            \* idle, spawning, destroying, returned, raised, responded
    spawn_calls,     \* spawn_monitored_metadata_proxy calls per router
    destroy_calls,   \* destroy_monitored_metadata_proxy calls per router
    proxy_starts     \* proxy processes launched per router

ha_vars == <<router_info, proxy, nrecv, h_router, h_state, h_pc,
             spawn_calls, destroy_calls, proxy_starts>>

\* ---- SNAT redirection (dvr.py)
VARIABLES
    snat_seen,       \* what _get_snat_idx returned for each CIDR when last called
    snat_calls,      \* how many times _get_snat_idx ran for each CIDR
    routes,          \* router namespace: default routes <<device, table, gateway>>
    rules,           \* router namespace: policy rules <<match cidr, table, priority>>
    send_redirects,  \* net.ipv4.conf.<device>.send_redirects
    snat_ret,        \* how the last redirect call ended
    snat_logged,     \* LOG.exception calls of the redirect operations
    snat_fault,      \* the step that failed in the last redirect call, or "none"
    snat_last,       \* <<"add", port>> after a clean add, <<"add_remove", port>> after a
                     \* clean remove that directly follows it, <<"other">> otherwise
    snat_before,     \* routes, rules and send_redirects as they were before that add
    snops            \* SNAT calls made so far

snat_vars == <<snat_seen, snat_calls, routes, rules, send_redirects, snat_ret, snat_logged,
               snat_fault, snat_last, snat_before, snops>>

\* ---- get_fip_ns called on its own (dvr.py)
VARIABLES
    got              \* raw id -> the handle get_fip_ns last returned for it, NoHandle
                     \* before the first call and once that network's namespace is destroyed

memo_vars == <<got>>

\* ---- removals of different routers interleaving (dvr.py)
VARIABLES
    pc,              \* router -> where its floating_ip_removed_dist call stands:
                     \* idle, teardown (before 218), unsub (before 228), destroying (in 72)
    pend,            \* router -> the handle whose destroy() it is running
    saw_last,        \* router -> its unsubscribe returned True
    sc,              \* router -> its place in the scenario "each router is prepared and
                     \* gets one floating IP, then each removes it": new, prepared, added,
                     \* removing, done; off once it left the scenario
    overlapped,      \* two removals were in progress at the same time
    raced            \* router -> it was prepared while a destroy of the namespace was running

conc_vars == <<pc, pend, saw_last, sc, overlapped, raced>>

\* ---- what a caller of the floating-IP controller has seen (dvr.py)
VARIABLES
    fip_last,        \* <<"add", r, f>> after an add that returned normally, <<"add_remove", r, f>>
                     \* after a remove of the same address that directly follows it and
                     \* returned normally, <<"other">> otherwise
    rules_before,    \* ip_rules as they were before that add
    removed,         \* <<r, f>> removed (the call returned normally) with no add of it since
    all_returned     \* every add and remove called so far returned normally

obs_vars == <<fip_last, rules_before, removed, all_returned>>

\* ---- ARP synchronizer (dvr.py)
VARIABLES
    fullsync,        \* self.fullsync
    neigh,           \* kernel, router namespaces: neighbor entries <<router, device, ip, mac>>
    arp_calls,       \* the neighbor primitive calls of the last operation, in order:
                     \* <<operation, router, device, ip version, ip, mac>>
    arp_requests,    \* the <<ip, mac>> pairs the last _set_subnet_arp_info asked an add for
    arp_fetched,     \* the subnet whose ports the last operation asked the plugin for, or "-"
    arp_ret,         \* how the last operation ended
    arp_fault,       \* what failed in the last operation, "none" if nothing did
    arp_last,        \* <<operation, router id>> of the last operation
    arp_ops          \* ARP operations so far

arp_vars == <<fullsync, neigh, arp_calls, arp_requests, arp_fetched, arp_ret, arp_fault,
              arp_last, arp_ops>>

\* ---- HA router set-up (ha.py)
VARIABLES
    ri_ha_port,      \* ri.ha_port, "None" while unset
    ha_effects,      \* router -> what process_ha_router_added has put in place for it
    ha_calls,        \* what the last set-up or removal call did to ri, in order
    ha_errors,       \* LOG.error calls of process_ha_router_added
    ha_ops           \* set-up and removal calls so far

hap_vars == <<ri_ha_port, ha_effects, ha_calls, ha_errors, ha_ops>>

\* ---- _get_snat_idx called on its own (dvr.py)
VARIABLES
    drawn            \* the last two calls: [version, hash, folded, idx], newest first

idx_vars == <<drawn>>

vars == <<dvr_vars, ha_vars, snat_vars, memo_vars, conc_vars, obs_vars, arp_vars, hap_vars,
          idx_vars>>

non_idx_vars == <<dvr_vars, ha_vars, snat_vars, memo_vars, conc_vars, obs_vars, arp_vars,
                  hap_vars>>

non_hap_vars == <<dvr_vars, ha_vars, snat_vars, memo_vars, conc_vars, obs_vars, arp_vars,
    idx_vars>>

non_dvr_vars == <<ha_vars, snat_vars, memo_vars, conc_vars, obs_vars, arp_vars, hap_vars,
    idx_vars>>

non_obs_vars == <<ha_vars, snat_vars, memo_vars, conc_vars, arp_vars, hap_vars,
    idx_vars>>

\* without ha_vars: the routers this agent manages change between ARP events
non_arp_vars == <<dvr_vars, snat_vars, memo_vars, conc_vars, obs_vars, hap_vars,
    idx_vars>>

non_ha_vars == <<dvr_vars, snat_vars, memo_vars, conc_vars, obs_vars, arp_vars, hap_vars,
    idx_vars>>

non_snat_vars == <<dvr_vars, ha_vars, memo_vars, conc_vars, obs_vars, arp_vars, hap_vars,
    idx_vars>>

non_conc_vars == <<ha_vars, snat_vars, memo_vars, obs_vars, arp_vars, hap_vars,
    idx_vars>>

\* A FipNamespace object as its constructor leaves it.
NewFipNamespace(n) ==
    [net |-> n, subscribers |-> {}, free |-> Priorities,
     local_subnets |-> {}, destroyed |-> FALSE]

\* the forms in which callers hand a network id to get_fip_ns
RawIds == [kind : {"str", "unicode"}, text : ExtNets]

\* str(ext_net_id)
Str(n) == n.text

FIP_NS_PREFIX == "fip-"

\* FipNamespace.get_name(): the prefix followed by the network id
get_name(net) == <<FIP_NS_PREFIX, net>>

\* ns[len(dvr_fip_ns.FIP_NS_PREFIX):]
ExNetIdOf(ns) == [kind |-> "str", text |-> ns[2]]

\* The external network of a router's gateway port.
ExNetOf(r) == [kind |-> "unicode", text |-> "ext1"]

\* ---------------------------------------------------------------- get_fip_ns
\* a lookup that never finds the memoized handle
not_memoized_ever(n) == TRUE

\* ext_net_id not in self._fip_namespaces
not_memoized(n) == fip_namespaces[Str(n)] = NoHandle

\* The handle get_fip_ns returns: the memoized one, else a newly constructed one.
get_fip_ns(n) ==
    IF not_memoized(n) THEN nobjs + 1 ELSE fip_namespaces[Str(n)]

\* nobjs after get_fip_ns(n)
get_fip_ns_nobjs(n) ==
    IF not_memoized(n) THEN nobjs + 1 ELSE nobjs

\* the object table after get_fip_ns(n), starting from table objs
get_fip_ns_objs(objs, n) ==
    IF not_memoized(n)
        THEN [objs EXCEPT ![nobjs + 1] = NewFipNamespace(Str(n))]
        ELSE objs

\* ------------------------------------------------ FipNamespace (from spec.md)
\* allocate(): any free priority
allocate_rule_priority(objs, h) == objs[h].free

\* deallocate(priority): the priority is eligible for reuse
deallocate_rule_priority(objs, h, p) == [objs EXCEPT ![h].free = @ \cup {p}]

subscribe(objs, h, r) == [objs EXCEPT ![h].subscribers = @ \cup {r}]

unsubscribe(objs, h, r) == [objs EXCEPT ![h].subscribers = @ \ {r}]

\* what unsubscribe returns: whether the set is now empty
is_last(objs, h) == objs[h].subscribers = {}

lease(objs, h, r) == [objs EXCEPT ![h].local_subnets = @ \cup {r}]

release(objs, h, r) == [objs EXCEPT ![h].local_subnets = @ \ {r}]

destroy(objs, h) == [objs EXCEPT ![h].destroyed = TRUE]

\* ------------------------------------------------------ scenario observer
ScenarioOps ==
    << <<"prep", "r1", "-">>, <<"add", "r1", "f1">>, <<"prep", "r2", "-">>,
       <<"add", "r2", "f2">>, <<"rem", "r1", "f1">>, <<"rem", "r2", "f2">> >>

ScenNext(op) ==
    IF scen >= 0 /\ scen < Len(ScenarioOps) /\ ScenarioOps[scen + 1] = op
        THEN scen + 1
        ELSE -1

\* one more call, within the explored number of calls
Step == nops < MaxOps /\ nops' = nops + 1

\* ------------------------------------------------------------------- Init
DvrInit ==
    /\ fip_namespaces = [n \in ExtNets |-> NoHandle]
    /\ nobjs = 0
    /\ fip_ns_objs = [h \in Handles |-> NewFipNamespace("ext1")]
    /\ agent_local_subnets = {}
    /\ ri_fip_ns = [r \in Routers |-> NoHandle]
    /\ floating_ips_dict = [r \in Routers |-> [f \in Fips |-> NoPriority]]
    /\ dist_fip_count = [r \in Routers |-> 0]
    /\ rtr_fip_subnet = [r \in Routers |-> FALSE]
    /\ fip_netns = [n \in ExtNets |-> FALSE]
    /\ ns_creates = [n \in ExtNets |-> 0]
    /\ ns_destroys = [n \in ExtNets |-> 0]
    /\ assoc = {}
    /\ ret = "none"
    /\ ip_rules = {}
    /\ fip_routes = {}
    /\ garps = {}
    /\ rtr_gateway = [r \in Routers |-> FALSE]
    /\ fip_veth = [r \in Routers |-> FALSE]
    /\ fault = "none"
    /\ td_log = <<>>
    /\ nops = 0
    /\ scen = 0

\* ------------------------------------------- preparing a router (spec.md)
\* The orchestrator readies router r for floating IPs: it fetches the shared
\* namespace, subscribes the router (the first subscription creates the
\* namespace) and leases the router's point-to-point subnet.
create_dvr_fip_interfaces(r) ==
    LET n == ExNetOf(r)
        h == get_fip_ns(n)
        o1 == get_fip_ns_objs(fip_ns_objs, n)
        first == o1[h].subscribers = {}
        o2 == lease(subscribe(o1, h, r), h, r)
    IN  /\ Step
        /\ fip_namespaces' = [fip_namespaces EXCEPT ![Str(n)] = h]
        /\ nobjs' = get_fip_ns_nobjs(n)
        /\ fip_ns_objs' = o2
        /\ ri_fip_ns' = [ri_fip_ns EXCEPT ![r] = h]
        /\ rtr_fip_subnet' = [rtr_fip_subnet EXCEPT ![r] = TRUE]
        /\ fip_netns' = [fip_netns EXCEPT ![Str(n)] = IF first THEN TRUE ELSE @]
        /\ ns_creates' = [ns_creates EXCEPT ![Str(n)] = IF first THEN @ + 1 ELSE @]
        /\ rtr_gateway' = [rtr_gateway EXCEPT ![r] = TRUE]
        /\ fip_veth' = [fip_veth EXCEPT ![r] = TRUE]
        /\ ret' = "ok"
        /\ fault' = "none"
        /\ td_log' = <<>>
        /\ scen' = ScenNext(<<"prep", r, "-">>)
        /\ UNCHANGED <<agent_local_subnets, floating_ips_dict, dist_fip_count,
                       ns_destroys, assoc, ip_rules, fip_routes, garps>>

\* ------------------------------------------------- floating_ip_added_dist
\* ri.dist_fip_count + 1
added_count(c) == c + 1

\* fip['fixed_ip_address'] of the floating IP
fixed_ip(f) == IF f = "f1" THEN "x1" ELSE "x2"

AddFaults == {"none", "rule", "route", "garp"}

RemoveFaults == {"none", "rule", "route", "gateway", "veth"}

\* a controller that logs a failed primitive and returns normally
fip_outcome_swallow(failed) == "ok"

\* no try/except around the primitives: what the caller sees
fip_outcome(failed) == IF failed = "none" THEN "ok" ELSE "PrimitiveFailure"

\* a controller that returns normally when no priority is left
alloc_outcome_swallow(exhausted) == "ok"

\* nothing catches what allocate_rule_priority raises
alloc_outcome(exhausted) == IF exhausted THEN "ExhaustedError" ELSE "ok"

\* fail names the primitive that fails in this call, if the call reaches it
floating_ip_added_dist(r, f, fail) ==
    LET h == ri_fip_ns[r]
        net == fip_ns_objs[h].net
        \* the statement the call stops at: 175 without a namespace or a free
        \* priority, 179 rule add, 182 get_pair without a lease, 185 route add,
        \* 188 gratuitous ARP; 194 when it runs to the end
        stop == IF h = NoHandle THEN 175
                ELSE IF allocate_rule_priority(fip_ns_objs, h) = {} THEN 175
                ELSE IF fail = "rule" THEN 179
                ELSE IF ~rtr_fip_subnet[r] THEN 182
                ELSE IF fail = "route" THEN 185
                ELSE IF fail = "garp" THEN 188
                ELSE 194
    IN  /\ Step
        /\ scen' = ScenNext(<<"add", r, f>>)
        /\ fault' = IF stop \in {179, 185, 188} THEN fail ELSE "none"
        /\ td_log' = <<>>
        /\ ret' = IF h = NoHandle THEN "AttributeError"
                  ELSE IF stop = 175 THEN alloc_outcome(TRUE)
                  ELSE IF stop = 182 THEN "AttributeError"
                  ELSE fip_outcome(IF stop = 194 THEN "none" ELSE fail)
        /\ IF stop = 175
             THEN UNCHANGED <<fip_ns_objs, floating_ips_dict, ip_rules, fip_routes, garps,
                              dist_fip_count, assoc>>
             ELSE \E rule_pr \in allocate_rule_priority(fip_ns_objs, h) :
                  /\ fip_ns_objs' = [fip_ns_objs EXCEPT ![h].free = @ \ {rule_pr}]
                  /\ floating_ips_dict' = [floating_ips_dict EXCEPT ![r][f] = rule_pr]
                  /\ ip_rules' = IF stop > 179
                                    THEN ip_rules \cup {<<r, fixed_ip(f), rule_pr>>}
                                    ELSE ip_rules
                  /\ fip_routes' = IF stop > 185 THEN fip_routes \cup {<<net, f, r>>}
                                                 ELSE fip_routes
                  /\ garps' = IF stop > 188 THEN garps \cup {<<net, f>>} ELSE garps
                  /\ dist_fip_count' = IF stop = 194
                                          THEN [dist_fip_count EXCEPT ![r] = added_count(@)]
                                          ELSE dist_fip_count
                  /\ assoc' = IF stop = 194 THEN assoc \cup {<<r, f>>} ELSE assoc
        /\ UNCHANGED <<fip_namespaces, nobjs, agent_local_subnets, ri_fip_ns,
                       rtr_fip_subnet, fip_netns, ns_creates, ns_destroys,
                       rtr_gateway, fip_veth>>

\* ----------------------------------------------- floating_ip_removed_dist
\* ri.dist_fip_count - 1
removed_count(c) == c - 1

\* a controller that tears down whenever no floating IP is counted any more
last_fip_nonpositive(c) == c <= 0

\* "check if this is the last FIP for this router"
last_fip(c) == c = 0

\* a controller that destroys the namespace whenever a router's link is torn down
destroy_if_any(last) == TRUE

\* "clean up fip-namespace if this is the last FIP"
destroy_if(last) == last

floating_ip_removed_dist(r, f, fail) ==
    LET h == ri_fip_ns[r]
        net == fip_ns_objs[h].net
        n == ExNetIdOf(get_name(net))
        rule_pr == floating_ips_dict[r][f]
        c == removed_count(dist_fip_count[r])
        \* the statement the call stops at: 199 without a namespace, 208 rule
        \* delete, 215 route delete, 223 gateway delete, 227 link delete; 231
        \* when it runs to the end
        stop == IF h = NoHandle THEN 199
                ELSE IF rule_pr # NoPriority /\ fail = "rule" THEN 208
                ELSE IF fail = "route" THEN 215
                ELSE IF last_fip(c) /\ fail = "gateway" THEN 223
                ELSE IF last_fip(c) /\ fail = "veth" THEN 227
                ELSE 231
        teardown == stop > 215 /\ last_fip(c)
        o1 == IF rule_pr # NoPriority /\ stop > 208
                THEN deallocate_rule_priority(fip_ns_objs, h, rule_pr)
                ELSE fip_ns_objs
        o2 == IF teardown /\ stop > 223 THEN release(o1, h, r) ELSE o1
        o3 == IF teardown /\ stop > 227 THEN unsubscribe(o2, h, r) ELSE o2
        destroying == teardown /\ stop > 227 /\ destroy_if(is_last(o3, h))
        d == get_fip_ns(n)
        o4 == IF destroying THEN destroy(get_fip_ns_objs(o3, n), d) ELSE o3
        \* the statements of 218-231 that ran to their end: 223, 225, 227, 228, 231
        done == (IF teardown /\ stop > 223 THEN <<"delete_gateway", "release">> ELSE <<>>)
                \o (IF teardown /\ stop > 227 THEN <<"del_veth", "unsubscribe">> ELSE <<>>)
                \o (IF destroying THEN <<"destroy">> ELSE <<>>)
    IN  /\ Step
        /\ td_log' = done
        /\ scen' = ScenNext(<<"rem", r, f>>)
        /\ fault' = IF stop \in {208, 215, 223, 227} THEN fail ELSE "none"
        /\ ret' = IF stop = 199 THEN "AttributeError"
                  ELSE fip_outcome(IF stop = 231 THEN "none" ELSE fail)
        /\ IF stop = 199
             THEN UNCHANGED <<fip_namespaces, nobjs, fip_ns_objs, agent_local_subnets,
                              dist_fip_count, rtr_fip_subnet, fip_netns, ns_destroys,
                              assoc, ip_rules, fip_routes, rtr_gateway, fip_veth>>
             ELSE /\ agent_local_subnets' =
                         IF rtr_fip_subnet[r] THEN agent_local_subnets
                                              ELSE agent_local_subnets \cup {r}
                  /\ ip_rules' = IF rule_pr # NoPriority /\ stop > 208
                                    THEN ip_rules \ {<<r, f, rule_pr>>}
                                    ELSE ip_rules
                  /\ fip_routes' = IF stop > 215 THEN fip_routes \ {<<net, f, r>>}
                                                 ELSE fip_routes
                  /\ dist_fip_count' = IF stop > 215
                                          THEN [dist_fip_count EXCEPT ![r] = c]
                                          ELSE dist_fip_count
                  /\ assoc' = IF stop > 215 THEN assoc \ {<<r, f>>} ELSE assoc
                  /\ rtr_gateway' = IF teardown /\ stop > 223
                                       THEN [rtr_gateway EXCEPT ![r] = FALSE]
                                       ELSE rtr_gateway
                  /\ rtr_fip_subnet' = [rtr_fip_subnet EXCEPT
                                           ![r] = ~(teardown /\ stop > 223)]
                  /\ fip_veth' = IF teardown /\ stop > 227
                                    THEN [fip_veth EXCEPT ![r] = FALSE]
                                    ELSE fip_veth
                  /\ fip_ns_objs' = o4
                  /\ fip_namespaces' =
                         IF destroying THEN [fip_namespaces EXCEPT ![Str(n)] = NoHandle]
                                       ELSE fip_namespaces
                  /\ nobjs' = IF destroying THEN get_fip_ns_nobjs(n) ELSE nobjs
                  /\ fip_netns' = IF destroying THEN [fip_netns EXCEPT ![Str(n)] = FALSE]
                                                ELSE fip_netns
                  /\ ns_destroys' = IF destroying
                                       THEN [ns_destroys EXCEPT ![Str(n)] = @ + 1]
                                       ELSE ns_destroys
        /\ UNCHANGED <<ri_fip_ns, floating_ips_dict, ns_creates, garps>>

\* ------------------------------------------- get_fip_ns, _destroy_fip_namespace
MemoInit == got = [a \in RawIds |-> NoHandle]

\* get_fip_ns(ext_net_id) called with the id in raw form a
call_get_fip_ns(a) ==
    /\ Step
    /\ scen' = ScenNext(<<"get", a.text, "-">>)
    /\ fip_namespaces' = [fip_namespaces EXCEPT ![Str(a)] = get_fip_ns(a)]
    /\ nobjs' = get_fip_ns_nobjs(a)
    /\ fip_ns_objs' = get_fip_ns_objs(fip_ns_objs, a)
    /\ got' = [got EXCEPT ![a] = get_fip_ns(a)]
    /\ ret' = "ok"
    /\ td_log' = <<>>
    /\ UNCHANGED <<agent_local_subnets, ri_fip_ns, floating_ips_dict, dist_fip_count,
                   rtr_fip_subnet, fip_netns, ns_creates, ns_destroys, assoc,
                   ip_rules, fip_routes, garps, rtr_gateway, fip_veth, fault>>

\* _destroy_fip_namespace(ns)
destroy_fip_namespace(ns) ==
    LET ex_net_id == ExNetIdOf(ns)
        fip_ns == get_fip_ns(ex_net_id)
    IN  /\ Step
        /\ scen' = ScenNext(<<"destroy", Str(ex_net_id), "-">>)
        /\ fip_namespaces' = [fip_namespaces EXCEPT ![Str(ex_net_id)] = NoHandle]
        /\ nobjs' = get_fip_ns_nobjs(ex_net_id)
        /\ fip_ns_objs' = destroy(get_fip_ns_objs(fip_ns_objs, ex_net_id), fip_ns)
        /\ fip_netns' = [fip_netns EXCEPT ![Str(ex_net_id)] = FALSE]
        /\ ns_destroys' = [ns_destroys EXCEPT ![Str(ex_net_id)] = @ + 1]
        /\ got' = [a \in RawIds |-> IF Str(a) = Str(ex_net_id) THEN NoHandle ELSE got[a]]
        /\ ret' = "ok"
        /\ td_log' = <<>>
        /\ UNCHANGED <<agent_local_subnets, ri_fip_ns, floating_ips_dict, dist_fip_count,
                       rtr_fip_subnet, ns_creates, assoc,
                       ip_rules, fip_routes, garps, rtr_gateway, fip_veth, fault>>

\* ------------------------------------- floating_ip_removed_dist, step by step
\* The agent runs each router's work in its own green thread; a thread gives
\* way to the others whenever it waits for an external command.
ConcInit ==
    /\ pc = [r \in Routers |-> "idle"]
    /\ pend = [r \in Routers |-> NoHandle]
    /\ saw_last = [r \in Routers |-> FALSE]
    /\ sc = [r \in Routers |-> "new"]
    /\ overlapped = FALSE
    /\ raced = [r \in Routers |-> FALSE]

Busy(p) == {r \in Routers : p[r] # "idle"}

\* the scenario place of r after one of its steps
sc_next(r, from, to, others, ok) ==
    IF sc[r] = from /\ ok /\ \A r2 \in Routers \ {r} : sc[r2] \in others
        THEN [sc EXCEPT ![r] = to]
        ELSE [sc EXCEPT ![r] = "off"]

sc_done(r) == IF sc[r] = "removing" THEN [sc EXCEPT ![r] = "done"] ELSE sc

\* lines 196-217: rule and route removal, count decrement
rem_begin(r, f) ==
    LET h == ri_fip_ns[r]
        net == fip_ns_objs[h].net
        rule_pr == floating_ips_dict[r][f]
        c == removed_count(dist_fip_count[r])
    IN  /\ pc[r] = "idle"
        /\ Step
        /\ scen' = ScenNext(<<"rem", r, f>>)
        /\ fault' = "none"
        /\ td_log' = <<>>
        /\ sc' = sc_next(r, "added", "removing", {"added", "removing", "done"},
                         h # NoHandle /\ rule_pr # NoPriority)
        /\ IF h = NoHandle
             THEN /\ ret' = "AttributeError"
                  /\ UNCHANGED <<fip_ns_objs, agent_local_subnets, dist_fip_count,
                                 rtr_fip_subnet, assoc, ip_rules, fip_routes, pc,
                                 overlapped>>
             ELSE /\ ret' = "ok"
                  /\ agent_local_subnets' =
                         IF rtr_fip_subnet[r] THEN agent_local_subnets
                                              ELSE agent_local_subnets \cup {r}
                  /\ rtr_fip_subnet' = [rtr_fip_subnet EXCEPT ![r] = TRUE]
                  /\ ip_rules' = IF rule_pr # NoPriority
                                    THEN ip_rules \ {<<r, f, rule_pr>>}
                                    ELSE ip_rules
                  /\ fip_ns_objs' = IF rule_pr # NoPriority
                                       THEN deallocate_rule_priority(fip_ns_objs, h, rule_pr)
                                       ELSE fip_ns_objs
                  /\ fip_routes' = fip_routes \ {<<net, f, r>>}
                  /\ dist_fip_count' = [dist_fip_count EXCEPT ![r] = c]
                  /\ assoc' = assoc \ {<<r, f>>}
                  /\ pc' = [pc EXCEPT ![r] = IF last_fip(c) THEN "teardown" ELSE "idle"]
                  /\ overlapped' = (overlapped \/ (last_fip(c) /\ Busy(pc) # {}))
        /\ UNCHANGED <<fip_namespaces, nobjs, ri_fip_ns, floating_ips_dict, fip_netns,
                       ns_creates, ns_destroys, garps, rtr_gateway, fip_veth,
                       pend, saw_last, raced>>

\* lines 218-227: gateway route, lease and link device
rem_teardown(r) ==
    LET h == ri_fip_ns[r]
    IN  /\ pc[r] = "teardown"
        /\ rtr_gateway' = [rtr_gateway EXCEPT ![r] = FALSE]
        /\ fip_ns_objs' = release(fip_ns_objs, h, r)
        /\ rtr_fip_subnet' = [rtr_fip_subnet EXCEPT ![r] = FALSE]
        /\ fip_veth' = [fip_veth EXCEPT ![r] = FALSE]
        /\ pc' = [pc EXCEPT ![r] = "unsub"]
        /\ UNCHANGED <<fip_namespaces, nobjs, agent_local_subnets, ri_fip_ns,
                       floating_ips_dict, dist_fip_count, fip_netns, ns_creates,
                       ns_destroys, assoc, ret, ip_rules, fip_routes, garps, fault,
                       td_log, nops, scen, pend, saw_last, sc, overlapped, raced>>

\* lines 228-231 and 68-71: unsubscribe, and when it was the last subscriber
\* the lookup and removal of the memoized handle, up to the call of destroy()
rem_unsubscribe(r) ==
    LET h == ri_fip_ns[r]
        n == ExNetIdOf(get_name(fip_ns_objs[h].net))
        o == unsubscribe(fip_ns_objs, h, r)
        last == is_last(o, h)
        fip_ns == get_fip_ns(n)
    IN  /\ pc[r] = "unsub"
        /\ saw_last' = [saw_last EXCEPT ![r] = last]
        /\ raced' = [raced EXCEPT ![r] = FALSE]
        /\ IF destroy_if(last)
             THEN /\ fip_namespaces' = [fip_namespaces EXCEPT ![Str(n)] = NoHandle]
                  /\ nobjs' = get_fip_ns_nobjs(n)
                  /\ fip_ns_objs' = get_fip_ns_objs(o, n)
                  /\ ns_destroys' = [ns_destroys EXCEPT ![Str(n)] = @ + 1]
                  /\ pend' = [pend EXCEPT ![r] = fip_ns]
                  /\ pc' = [pc EXCEPT ![r] = "destroying"]
                  /\ sc' = sc
             ELSE /\ fip_ns_objs' = o
                  /\ pc' = [pc EXCEPT ![r] = "idle"]
                  /\ sc' = sc_done(r)
                  /\ UNCHANGED <<fip_namespaces, nobjs, ns_destroys, pend>>
        /\ UNCHANGED <<agent_local_subnets, ri_fip_ns, floating_ips_dict, dist_fip_count,
                       rtr_fip_subnet, fip_netns, ns_creates, assoc, ret, ip_rules,
                       fip_routes, garps, rtr_gateway, fip_veth, fault, td_log, nops,
                       scen, overlapped>>

\* line 72: fip_ns.destroy() deletes the namespace of that name and returns
rem_destroy(r) ==
    /\ pc[r] = "destroying"
    /\ fip_ns_objs' = destroy(fip_ns_objs, pend[r])
    /\ fip_netns' = [fip_netns EXCEPT ![fip_ns_objs[pend[r]].net] = FALSE]
    /\ pend' = [pend EXCEPT ![r] = NoHandle]
    /\ pc' = [pc EXCEPT ![r] = "idle"]
    /\ sc' = sc_done(r)
    /\ UNCHANGED <<fip_namespaces, nobjs, agent_local_subnets, ri_fip_ns,
                   floating_ips_dict, dist_fip_count, rtr_fip_subnet, ns_creates,
                   ns_destroys, assoc, ret, ip_rules, fip_routes, garps, rtr_gateway,
                   fip_veth, fault, td_log, nops, scen, saw_last, overlapped, raced>>

\* the router is prepared while other routers' removals are in progress
conc_prepare(r) ==
    /\ pc[r] = "idle"
    /\ create_dvr_fip_interfaces(r)
    /\ sc' = sc_next(r, "new", "prepared", {"new", "prepared", "added"}, TRUE)
    /\ raced' = [raced EXCEPT ![r] = \E r2 \in Routers : pc[r2] = "destroying"]
    /\ UNCHANGED <<pc, pend, saw_last, overlapped>>

\* a floating IP is added while other routers' removals are in progress
conc_add(r, f) ==
    /\ pc[r] = "idle"
    /\ floating_ip_added_dist(r, f, "none")
    /\ sc' = sc_next(r, "prepared", "added", {"new", "prepared", "added"}, ret' = "ok")
    /\ UNCHANGED <<pc, pend, saw_last, overlapped, raced>>

\* ============================================================ ha.py
HaInit ==
    /\ router_info = {"r1"}
    /\ proxy = [r \in HaRouters |-> FALSE]
    /\ nrecv = 0
    /\ h_router = [h \in Handlers |-> "-"]
    /\ h_state = [h \in Handlers |-> "-"]
    /\ h_pc = [h \in Handlers |-> "idle"]
    /\ spawn_calls = [r \in HaRouters |-> 0]
    /\ destroy_calls = [r \in HaRouters |-> 0]
    /\ proxy_starts = [r \in HaRouters |-> 0]

\* self.router_info[router_id] raises KeyError for an absent key; the
\* handler catches AttributeError only.
lookup_raises(r) == r \notin router_info

\* an agent that takes every token but 'backup' as 'master'
update_call_not_backup(state) == IF state = "backup" THEN "destroy" ELSE "spawn"

\* an agent that calls the destroy primitive whatever the state token
update_call_destroy(state) == "destroy"

\* which primitive _update_metadata_proxy calls for a state token
update_call(state) == IF state = "master" THEN "spawn" ELSE "destroy"

\* The handler of one notification, from KeepalivedStateChangeHandler.__call__
\* through enqueue, enqueue_state_change and _update_metadata_proxy, up to the
\* point where the called primitive yields while it launches or kills the
\* process (or returns at once when it has nothing to do).
Notify(r, state) ==
    LET h == nrecv + 1
    IN  /\ nrecv < MaxNotifs
        /\ nrecv' = h
        /\ h_router' = [h_router EXCEPT ![h] = r]
        /\ h_state' = [h_state EXCEPT ![h] = state]
        /\ IF lookup_raises(r)
             THEN /\ h_pc' = [h_pc EXCEPT ![h] = "raised"]
                  /\ UNCHANGED <<spawn_calls, destroy_calls>>
             ELSE IF update_call(state) = "spawn"
             THEN /\ spawn_calls' = [spawn_calls EXCEPT ![r] = @ + 1]
                  /\ h_pc' = [h_pc EXCEPT ![h] =
                                 IF proxy[r] THEN "returned" ELSE "spawning"]
                  /\ UNCHANGED destroy_calls
             ELSE /\ destroy_calls' = [destroy_calls EXCEPT ![r] = @ + 1]
                  /\ h_pc' = [h_pc EXCEPT ![h] =
                                 IF proxy[r] THEN "destroying" ELSE "returned"]
                  /\ UNCHANGED spawn_calls
        /\ UNCHANGED <<router_info, proxy, proxy_starts>>

\* a primitive called for router r has not returned yet
InProgress(r) ==
    \E h \in 1..nrecv : h_router[h] = r /\ h_pc[h] \in {"spawning", "destroying"}

\* a notification for r that arrives when the ones before it are handled
notify_serially(r, state) == ~InProgress(r) /\ Notify(r, state)

\* the spawn primitive has launched the process and returns
SpawnFinish(h) ==
    /\ h_pc[h] = "spawning"
    /\ proxy' = [proxy EXCEPT ![h_router[h]] = TRUE]
    /\ proxy_starts' = [proxy_starts EXCEPT ![h_router[h]] = @ + 1]
    /\ h_pc' = [h_pc EXCEPT ![h] = "returned"]
    /\ UNCHANGED <<router_info, nrecv, h_router, h_state, spawn_calls, destroy_calls>>

\* the destroy primitive has killed the process and returns
DestroyFinish(h) ==
    /\ h_pc[h] = "destroying"
    /\ proxy' = [proxy EXCEPT ![h_router[h]] = FALSE]
    /\ h_pc' = [h_pc EXCEPT ![h] = "returned"]
    /\ UNCHANGED <<router_info, nrecv, h_router, h_state, spawn_calls,
                   destroy_calls, proxy_starts>>

\* __call__ has returned: the listener sends the response
Respond(h) ==
    /\ h_pc[h] = "returned"
    /\ h_pc' = [h_pc EXCEPT ![h] = "responded"]
    /\ UNCHANGED <<router_info, proxy, nrecv, h_router, h_state, spawn_calls,
                   destroy_calls, proxy_starts>>

\* the orchestrator schedules a router to this agent, or unschedules it
RouterAdded(r) ==
    /\ r \notin router_info
    /\ router_info' = router_info \cup {r}
    /\ UNCHANGED <<proxy, nrecv, h_router, h_state, h_pc, spawn_calls,
                   destroy_calls, proxy_starts>>

RouterRemoved(r) ==
    /\ r \in router_info
    /\ router_info' = router_info \ {r}
    /\ UNCHANGED <<proxy, nrecv, h_router, h_state, h_pc, spawn_calls,
                   destroy_calls, proxy_starts>>

\* ==================================================== SNAT redirection
\* 32-bit words are kept as two 16-bit halves.
Word(h, l) == [hi |-> h, lo |-> l]

RECURSIVE Xor(_, _)
Xor(a, b) ==
    IF a = 0 THEN b
    ELSE IF b = 0 THEN a
    ELSE ((a + b) % 2) + 2 * Xor(a \div 2, b \div 2)

XorW(v, w) == Word(Xor(v.hi, w.hi), Xor(v.lo, w.lo))

\* the internal ports' ip_cidr values: text, its bytes, and what
\* netaddr.IPNetwork parses out of it
Cidrs ==
    { [text |-> "10.0.0.0/24", version |-> 4, octets |-> <<10, 0, 0, 0>>,
       prefixlen |-> 24, bytes |-> <<>>, dev |-> "qr-a"],
      [text |-> "10.0.0.5/24", version |-> 4, octets |-> <<10, 0, 0, 5>>,
       prefixlen |-> 24, bytes |-> <<>>, dev |-> "qr-b"],
      [text |-> "192.168.1.1/24", version |-> 4, octets |-> <<192, 168, 1, 1>>,
       prefixlen |-> 24, bytes |-> <<>>, dev |-> "qr-c"],
      [text |-> "0.0.100.1/24", version |-> 4, octets |-> <<0, 0, 100, 1>>,
       prefixlen |-> 24, bytes |-> <<>>, dev |-> "qr-d"],
      [text |-> "fe80::/64", version |-> 6, octets |-> <<>>, prefixlen |-> 64,
       bytes |-> <<102, 101, 56, 48, 58, 58, 47, 54, 52>>, dev |-> "qr-e"],
      [text |-> "2001:db8:229:d::/64", version |-> 6, octets |-> <<>>, prefixlen |-> 64,
       bytes |-> <<50, 48, 48, 49, 58, 100, 98, 56, 58, 50, 50, 57, 58, 100, 58, 58,
                   47, 54, 52>>, dev |-> "qr-f"] }

CidrTexts == {c.text : c \in Cidrs}

Devices == {c.dev : c \in Cidrs}

\* netaddr.IPNetwork(ip_cidr).value: the address part as written, host bits kept
IPNetwork_value(c) ==
    Word(c.octets[1] * 256 + c.octets[2], c.octets[3] * 256 + c.octets[4])

RECURSIVE Pow2(_)
Pow2(n) == IF n = 0 THEN 1 ELSE 2 * Pow2(n - 1)

\* netaddr.IPNetwork(ip_cidr).first: the base address of the network
IPNetwork_first(c) ==
    LET v == IPNetwork_value(c)
        hostbits == 32 - c.prefixlen
    IN  IF hostbits <= 16
            THEN Word(v.hi, v.lo - (v.lo % Pow2(hostbits)))
            ELSE Word(v.hi - (v.hi % Pow2(hostbits - 16)), 0)

\* one bit of the CRC-32 register (reflected polynomial 0xEDB88320)
crc32_shift(w) ==
    LET shifted == Word(w.hi \div 2, (w.lo \div 2) + (w.hi % 2) * 32768)
    IN  IF w.lo % 2 = 1 THEN XorW(shifted, Word(60856, 33568)) ELSE shifted

RECURSIVE crc32_bits(_, _)
crc32_bits(w, n) == IF n = 0 THEN w ELSE crc32_bits(crc32_shift(w), n - 1)

\* the register after one more byte of input
crc32_update(w, b) == crc32_bits(Word(w.hi, Xor(w.lo, b)), 8)

\* the register after bytes i.. of the input, one byte at a time
RECURSIVE crc32_bytes(_, _, _)
crc32_bytes(w, bytes, i) ==
    IF i > Len(bytes) THEN w
    ELSE CHOOSE r \in {crc32_bytes(v, bytes, i + 1) : v \in {crc32_update(w, bytes[i])}} : TRUE

\* binascii.crc32(ip_cidr) & 0xffffffff
crc32(bytes) ==
    XorW(crc32_bytes(Word(65535, 65535), bytes, 1), Word(65535, 65535))

\* (snat_idx >> 30) ^ (snat_idx & MASK_30)
xor_fold(w) == Word(w.hi % 16384, Xor(w.lo, w.hi \div 16384))

\* snat_idx < 32768
below_32768(w) == w.hi = 0 /\ w.lo < 32768

\* snat_idx + 0xffffffff, an offset four times too large
add_mask_32(w) ==
    Word(w.hi + 65535 + ((w.lo + 65535) \div 65536), (w.lo + 65535) % 65536)

\* snat_idx + MASK_30
add_mask_30(w) ==
    Word(w.hi + 16383 + ((w.lo + 65535) \div 65536), (w.lo + 65535) % 65536)

\* lines 130-132: fold the hash, extend a small value
hash_idx(w) ==
    LET folded == xor_fold(w)
    IN  IF below_32768(folded) THEN add_mask_30(folded) ELSE folded

\* an index function that takes the network's base address for IPv4
get_snat_idx_network(c) ==
    IF c.version = 6
        THEN LET folded == xor_fold(crc32(c.bytes))
             IN  IF below_32768(folded) THEN add_mask_30(folded) ELSE folded
        ELSE IPNetwork_first(c)

\* an index function that depends on how many calls were made before
get_snat_idx_counting(c) ==
    IF c.version = 6
        THEN LET folded == xor_fold(crc32(c.bytes))
             IN  IF below_32768(folded) THEN add_mask_30(folded) ELSE folded
        ELSE Word(IPNetwork_value(c).hi, (IPNetwork_value(c).lo + snops) % 65536)

\* binascii.crc32 of each of the IPv6 ports' CIDRs
crc32_of ==
    [t \in {c.text : c \in {d \in Cidrs : d.version = 6}} |->
        crc32((CHOOSE c \in Cidrs : c.text = t).bytes)]

\* _get_snat_idx
get_snat_idx(c) ==
    IF c.version = 6
        THEN hash_idx(crc32_of[c.text])
        ELSE IPNetwork_value(c)

\* _get_snat_idx on each of the ports' CIDRs
snat_idx_of == [t \in CidrTexts |-> get_snat_idx(CHOOSE c \in Cidrs : c.text = t)]

NoIdx == Word(-1, -1)

SnatInit ==
    /\ snat_seen = [t \in CidrTexts |-> NoIdx]
    /\ snat_calls = [t \in CidrTexts |-> 0]
    /\ routes = {}
    /\ rules = {}
    /\ send_redirects = [d \in Devices |-> 1]
    /\ snat_ret = "none"
    /\ snat_logged = 0
    /\ snat_fault = "none"
    /\ snat_last = <<"other">>
    /\ snat_before = [routes |-> {}, rules |-> {}, send_redirects |-> [d \in Devices |-> 1]]
    /\ snops = 0

SnatStep == snops < MaxSnatOps /\ snops' = snops + 1

\* a direct call of _get_snat_idx
call_get_snat_idx(c) ==
    /\ SnatStep
    /\ snat_seen' = [snat_seen EXCEPT ![c.text] = snat_idx_of[c.text]]
    /\ snat_calls' = [snat_calls EXCEPT ![c.text] = @ + 1]
    /\ snat_last' = <<"other">>
    /\ snat_fault' = "none"
    /\ UNCHANGED <<routes, rules, send_redirects, snat_ret, snat_logged, snat_before>>

\* a redirect operation that lets the failure out
redirect_outcome_raise(fail) == IF fail = "none" THEN "ok" ELSE "raised"

\* try: ... except Exception: LOG.exception(...)
redirect_outcome(fail) == "ok"

AddFailures == {"none", "idx", "route", "rule", "sysctl"}

RemoveFailures == {"none", "idx", "route", "rule"}

\* ns_ipr.delete with another priority than the one the rule was added with
rule_deleted_other(rs, c, idx) == rs \ {<<c.text, idx, NoIdx>>}

\* ns_ipr.delete(ip_cidr, snat_idx, snat_idx)
rule_deleted(rs, c, idx) == rs \ {<<c.text, idx, idx>>}

\* ns_ipr.add with the table as given and another priority than the index
rule_added_other(rs, c, idx) == rs \cup {<<c.text, idx, NoIdx>>}

\* ns_ipr.add(ip_cidr, snat_idx, snat_idx)
rule_added(rs, c, idx) == rs \cup {<<c.text, idx, idx>>}

\* ns_ipd.route.add_gateway(gateway, table=snat_idx)
gateway_added(rts, c, gateway, idx) == rts \cup {<<c.dev, idx, gateway>>}

\* ns_ipd.route.delete_gateway(table=snat_idx): the device's default route of the table
gateway_deleted(rts, c, idx) == {rt \in rts : ~(rt[1] = c.dev /\ rt[2] = idx)}

\* _snat_redirect_add(ri, gateway, sn_port, sn_int); fail names the step that fails
snat_redirect_add(c, gateway, fail) ==
    LET idx == snat_idx_of[c.text]
    IN  /\ SnatStep
        /\ snat_seen' = IF fail = "idx" THEN snat_seen
                        ELSE [snat_seen EXCEPT ![c.text] = idx]
        /\ snat_calls' = IF fail = "idx" THEN snat_calls
                         ELSE [snat_calls EXCEPT ![c.text] = @ + 1]
        /\ routes' = IF fail \in {"idx", "route"} THEN routes
                     ELSE gateway_added(routes, c, gateway, idx)
        /\ rules' = IF fail \in {"idx", "route", "rule"} THEN rules
                    ELSE rule_added(rules, c, idx)
        /\ send_redirects' = IF fail = "none"
                                THEN [send_redirects EXCEPT ![c.dev] = 0]
                                ELSE send_redirects
        /\ snat_ret' = redirect_outcome(fail)
        /\ snat_logged' = IF fail = "none" THEN snat_logged ELSE snat_logged + 1
        /\ snat_fault' = fail
        /\ snat_last' = IF fail = "none" THEN <<"add", c.text>> ELSE <<"other">>
        /\ snat_before' = IF fail = "none"
                             THEN [routes |-> routes, rules |-> rules,
                                   send_redirects |-> send_redirects]
                             ELSE snat_before

\* _snat_redirect_remove(ri, sn_port, sn_int); fail names the step that fails
snat_redirect_remove(c, fail) ==
    LET idx == snat_idx_of[c.text]
    IN  /\ SnatStep
        /\ snat_seen' = IF fail = "idx" THEN snat_seen
                        ELSE [snat_seen EXCEPT ![c.text] = idx]
        /\ snat_calls' = IF fail = "idx" THEN snat_calls
                         ELSE [snat_calls EXCEPT ![c.text] = @ + 1]
        /\ routes' = IF fail \in {"idx", "route"} THEN routes
                     ELSE gateway_deleted(routes, c, idx)
        /\ rules' = IF fail \in {"idx", "route", "rule"} THEN rules
                    ELSE rule_deleted(rules, c, idx)
        /\ snat_ret' = redirect_outcome(fail)
        /\ snat_logged' = IF fail = "none" THEN snat_logged ELSE snat_logged + 1
        /\ snat_fault' = fail
        /\ snat_last' = IF fail = "none" /\ snat_last = <<"add", c.text>>
                           THEN <<"add_remove", c.text>>
                           ELSE <<"other">>
        /\ UNCHANGED <<send_redirects, snat_before>>

\* ------------------------------------------------- the index of a given hash
\* 32-bit values binascii.crc32(ip_cidr) & 0xffffffff may have
HashHi == {0, 1, 16383, 16384, 32768, 49152, 65535}
HashLo == {0, 1, 2, 32767, 32768, 65535}
HashWords == {Word(h, l) : h \in HashHi, l \in HashLo}

IdxInit == drawn = <<>>

\* the last call and the one before it
kept(d, rec) == IF d = <<>> THEN <<rec>> ELSE <<rec, d[1]>>

\* _get_snat_idx on an IPv6 CIDR whose hash is w
index_hash(w) ==
    drawn' = kept(drawn, [version |-> 6, hash |-> w, folded |-> xor_fold(w),
                          idx |-> hash_idx(w)])

\* _get_snat_idx on one of the ports' CIDRs
index_cidr(c) ==
    drawn' = kept(drawn, [version |-> c.version,
                          hash |-> IF c.version = 6 THEN crc32_of[c.text] ELSE NoIdx,
                          folded |-> IF c.version = 6 THEN xor_fold(crc32_of[c.text]) ELSE NoIdx,
                          idx |-> snat_idx_of[c.text]])

\* ==================================================== ARP synchronizer
ArpSubnets == {"s1", "s2", "s3"}

\* l3_constants.ROUTER_INTERFACE_OWNERS
ROUTER_INTERFACE_OWNERS ==
    {"network:router_interface", "network:router_interface_distributed"}

\* ri.router['distributed']
distributed(r) == r = "r1"

\* ri.router.get(l3_constants.INTERFACE_KEY, []): each port with the subnet
\* ids of its fixed IPs
router_ports(r) ==
    IF r = "r1"
        THEN << [id |-> "pa", fixed_ips |-> <<"s1">>],
                [id |-> "pb", fixed_ips |-> <<"s2", "s1">>] >>
        ELSE << [id |-> "pc", fixed_ips |-> <<"s1">>] >>

\* the ports the plugin has on a subnet
get_ports_by_subnet(subnet_id) ==
    IF subnet_id = "s1"
        THEN << [device_owner |-> "compute:nova", mac_address |-> "fa:01",
                 fixed_ips |-> <<"10.0.0.3", "fe80::3">>],
                [device_owner |-> "network:router_interface", mac_address |-> "fa:02",
                 fixed_ips |-> <<"10.0.0.1">>],
                [device_owner |-> "network:router_interface_distributed",
                 mac_address |-> "fa:03", fixed_ips |-> <<"10.0.0.2">>],
                [device_owner |-> "network:dhcp", mac_address |-> "fa:04",
                 fixed_ips |-> <<"10.0.0.4">>] >>
    ELSE IF subnet_id = "s2"
        THEN << [device_owner |-> "compute:nova", mac_address |-> "fa:05",
                 fixed_ips |-> <<"10.0.1.3">>] >>
        ELSE << [device_owner |-> "compute:nova", mac_address |-> "fa:06",
                 fixed_ips |-> <<"10.0.2.3">>] >>

\* the port argument of _set_subnet_arp_info: port['subnet'] with or without 'id'
PortArgs ==
    {[subnet |-> [id |-> s]] : s \in ArpSubnets} \cup {[subnet |-> [cidr |-> "10.0.3.0/24"]]}

\* ip, mac and subnet of an arp_table payload
ArpIps == {"10.0.0.3", "fe80::3", "bogus"}
ArpMacs == {"fa:01"}
ArpOperations == {"add", "delete"}

\* the neighbor adds that may fail during one _set_subnet_arp_info
FailIps == {"10.0.0.3"}

NoPort == [id |-> "-", fixed_ips |-> <<>>]
NoVersion == 0

\* netaddr.IPNetwork(ip_cidr).version; NoVersion when the text does not parse
IPNetwork_version(ip) ==
    IF ip = "bogus" THEN NoVersion
    ELSE IF ip = "fe80::3" THEN 6
    ELSE 4

\* a lookup that returns the router's first port whatever its subnets
get_internal_port_any(r, subnet_id) == router_ports(r)[1]

\* the first port of the router with a fixed IP on the subnet, None without one
get_internal_port(r, subnet_id) ==
    LET ports == router_ports(r)
        hits == {i \in 1..Len(ports) :
                    \E j \in 1..Len(ports[i].fixed_ips) : ports[i].fixed_ips[j] = subnet_id}
    IN  IF hits = {} THEN NoPort
        ELSE ports[CHOOSE i \in hits : \A k \in hits : i <= k]

\* self.get_internal_device_name(port['id'])
get_internal_device_name(port_id) == <<"qr-", port_id>>

\* device.neigh.add / device.neigh.delete on the table of neighbor entries
neigh_applied(tbl, operation, entry) ==
    IF operation = "add" THEN tbl \cup {entry}
    ELSE IF operation = "delete" THEN tbl \ {entry}
    ELSE tbl

\* except Exception: ... self.fullsync = True
after_failure(flag) == TRUE

\* _update_arp_entry on st = [neigh, fullsync, calls, fault]; fails says
\* whether the neighbor primitive raises when called
update_arp_entry(st, r, ip, mac, subnet_id, operation, fails) ==
    LET port == get_internal_port(r, subnet_id)
        version == IPNetwork_version(ip)
        device == get_internal_device_name(port.id)
        call == <<operation, r, device, version, ip, mac>>
    IN  IF port = NoPort THEN st
        ELSE IF version = NoVersion
            THEN [st EXCEPT !.fullsync = after_failure(@), !.fault = "parse"]
        ELSE IF operation \notin {"add", "delete"} THEN st
        ELSE IF fails
            THEN [st EXCEPT !.calls = Append(@, call),
                            !.fullsync = after_failure(@), !.fault = "neigh"]
        ELSE [st EXCEPT !.calls = Append(@, call),
                        !.neigh = neigh_applied(@, operation, <<r, device, ip, mac>>)]

\* a test that takes no port for a router interface
interface_owner_never(owner) == FALSE

\* p['device_owner'] in l3_constants.ROUTER_INTERFACE_OWNERS
interface_owner(owner) == owner \in ROUTER_INTERFACE_OWNERS

\* for fixed_ip in p['fixed_ips']: the (ip, mac) pairs of one port, from the i-th on
RECURSIVE port_entries(_, _)
port_entries(p, i) ==
    IF i > Len(p.fixed_ips) THEN <<>>
    ELSE << <<p.fixed_ips[i], p.mac_address>> >> \o port_entries(p, i + 1)

\* for p in subnet_ports: the pairs _update_arp_entry is called with, in order
RECURSIVE subnet_entries(_, _)
subnet_entries(ports, i) ==
    IF i > Len(ports) THEN <<>>
    ELSE (IF interface_owner(ports[i].device_owner) THEN <<>>
          ELSE port_entries(ports[i], 1))
         \o subnet_entries(ports, i + 1)

\* a pass that gives up at the first entry that failed
RECURSIVE sync_entries_stop(_, _, _, _, _, _)
sync_entries_stop(st, r, subnet_id, entries, i, bad) ==
    IF i > Len(entries) \/ st.fault # "none" THEN st
    ELSE sync_entries_stop(update_arp_entry(st, r, entries[i][1], entries[i][2], subnet_id,
                                            "add", entries[i][1] \in bad),
                           r, subnet_id, entries, i + 1, bad)

\* the calls of lines 86-88 from the i-th pair on; bad holds the addresses
\* whose neighbor add raises
RECURSIVE sync_entries(_, _, _, _, _, _)
sync_entries(st, r, subnet_id, entries, i, bad) ==
    IF i > Len(entries) THEN st
    ELSE sync_entries(update_arp_entry(st, r, entries[i][1], entries[i][2], subnet_id,
                                       "add", entries[i][1] \in bad),
                      r, subnet_id, entries, i + 1, bad)

\* the periodic pass has run: no resync is pending
ArpInit ==
    /\ fullsync = FALSE
    /\ neigh = {}
    /\ arp_calls = <<>>
    /\ arp_requests = <<>>
    /\ arp_fetched = "-"
    /\ arp_ret = "none"
    /\ arp_fault = "none"
    /\ arp_last = <<"other", "-">>
    /\ arp_ops = 0

ArpStep == arp_ops < MaxArpOps /\ arp_ops' = arp_ops + 1

\* the state _update_arp_entry starts from in a new call
arp_entry_state == [neigh |-> neigh, fullsync |-> fullsync, calls |-> <<>>, fault |-> "none"]

\* the call left the state st behind and returned
arp_returned(st) ==
    /\ neigh' = st.neigh
    /\ fullsync' = st.fullsync
    /\ arp_calls' = st.calls
    /\ arp_fault' = st.fault
    /\ arp_ret' = "ok"

\* _update_arp_entry called on its own for a router the caller holds
call_update_arp_entry(r, ip, mac, subnet_id, operation, fails) ==
    /\ ArpStep
    /\ r \in router_info
    /\ arp_last' = <<"update_arp_entry", r>>
    /\ arp_returned(update_arp_entry(arp_entry_state, r, ip, mac, subnet_id, operation, fails))
    /\ UNCHANGED <<arp_requests, arp_fetched>>

\* a router that is taken as tracked whatever router_info holds
tracked_always(router_id) == TRUE

\* ri = self.router_info.get(router_id); if ri:
tracked(router_id) == router_id \in router_info

\* add_arp_entry(context, payload) and del_arp_entry(context, payload)
arp_entry_event(operation, payload, fails) ==
    LET arp_table == payload.arp_table
        router_id == payload.router_id
        ip == arp_table.ip_address
        mac == arp_table.mac_address
        subnet_id == arp_table.subnet_id
    IN  /\ ArpStep
        /\ arp_last' = <<operation, router_id>>
        /\ arp_returned(IF tracked(router_id)
                           THEN update_arp_entry(arp_entry_state, router_id, ip, mac,
                                                 subnet_id, operation, fails)
                           ELSE arp_entry_state)
        /\ UNCHANGED <<arp_requests, arp_fetched>>

add_arp_entry(payload, fails) == arp_entry_event("add", payload, fails)

del_arp_entry(payload, fails) == arp_entry_event("delete", payload, fails)

Payloads ==
    [router_id : HaRouters,
     arp_table : [ip_address : ArpIps, mac_address : ArpMacs, subnet_id : ArpSubnets]]

\* _set_subnet_arp_info(ri, port); rpc_fails says whether get_ports_by_subnet raises
set_subnet_arp_info(r, port, rpc_fails, bad) ==
    LET subnet_id == port.subnet.id
        entries == subnet_entries(get_ports_by_subnet(subnet_id), 1)
    IN  /\ ArpStep
        /\ r \in router_info
        /\ arp_last' = <<"set_subnet_arp_info", r>>
        /\ IF "id" \notin DOMAIN port.subnet \/ ~distributed(r)
             THEN /\ arp_returned(arp_entry_state)
                  /\ arp_requests' = <<>>
                  /\ arp_fetched' = "-"
             ELSE IF rpc_fails
             THEN /\ arp_ret' = "raised"
                  /\ arp_fault' = "rpc"
                  /\ arp_fetched' = subnet_id
                  /\ arp_requests' = <<>>
                  /\ arp_calls' = <<>>
                  /\ UNCHANGED <<neigh, fullsync>>
             ELSE /\ arp_returned(sync_entries(arp_entry_state, r, subnet_id, entries, 1, bad))
                  /\ arp_requests' = entries
                  /\ arp_fetched' = subnet_id

\* the orchestrator schedules a router to this agent, or unschedules it,
\* between ARP events
arp_router_added(r) ==
    /\ ArpStep
    /\ RouterAdded(r)
    /\ arp_last' = <<"other", "-">>
    /\ UNCHANGED <<fullsync, neigh, arp_calls, arp_requests, arp_fetched, arp_ret, arp_fault>>

arp_router_removed(r) ==
    /\ ArpStep
    /\ RouterRemoved(r)
    /\ arp_last' = <<"other", "-">>
    /\ UNCHANGED <<fullsync, neigh, arp_calls, arp_requests, arp_fetched, arp_ret, arp_fault>>

\* ==================================================== HA router set-up (ha.py)
\* ri.router.get(l3_constants.HA_INTERFACE_KEY): no key, an empty record, a port
HaPortValues == {"None", "{}", "ha-port"}

HaEffects == {"subnet_info", "keepalived_manager", "ha_network", "initial_state_callback",
              "state_change_monitor"}

\* an agent that goes on whatever the router record holds
no_ha_port_never(ha_port) == FALSE

\* if not ha_port:
no_ha_port(ha_port) == ha_port \in {"None", "{}"}

\* lines 135-145, in the order the statements stand in
added_calls ==
    <<"_set_subnet_info", "ha_port", "_init_keepalived_manager", "ha_network_added",
      "update_initial_state", "spawn_state_change_monitor">>

\* lines 148-149
removed_calls == <<"destroy_state_change_monitor", "ha_network_removed">>

HapInit ==
    /\ ri_ha_port = [r \in HaRouters |-> "None"]
    /\ ha_effects = [r \in HaRouters |-> {}]
    /\ ha_calls = <<>>
    /\ ha_errors = 0
    /\ ha_ops = 0

HapStep == ha_ops < MaxHaOps /\ ha_ops' = ha_ops + 1

\* process_ha_router_added(ri) for a router record whose HA port is ha_port
process_ha_router_added(r, ha_port) ==
    /\ HapStep
    /\ IF no_ha_port(ha_port)
         THEN /\ ha_errors' = ha_errors + 1
              /\ ha_calls' = <<>>
              /\ UNCHANGED <<ri_ha_port, ha_effects>>
         ELSE /\ ri_ha_port' = [ri_ha_port EXCEPT ![r] = ha_port]
              /\ ha_effects' = [ha_effects EXCEPT ![r] = HaEffects]
              /\ ha_calls' = added_calls
              /\ UNCHANGED ha_errors

\* process_ha_router_removed(ri)
process_ha_router_removed(r) ==
    /\ HapStep
    /\ ha_effects' = [ha_effects EXCEPT ![r] = @ \ {"state_change_monitor", "ha_network"}]
    /\ ha_calls' = removed_calls
    /\ UNCHANGED <<ri_ha_port, ha_errors>>

\* ------------------------------------------ the caller's view of add and remove
ObsInit ==
    /\ fip_last = <<"other">>
    /\ rules_before = {}
    /\ removed = {}
    /\ all_returned = TRUE

\* the caller has called floating_ip_added_dist(r, f)
observe_add(r, f) ==
    /\ fip_last' = IF ret' = "ok" THEN <<"add", r, f>> ELSE <<"other">>
    /\ rules_before' = IF ret' = "ok" THEN ip_rules ELSE {}
    /\ removed' = removed \ {<<r, f>>}
    /\ all_returned' = (all_returned /\ ret' = "ok")

\* the caller has called floating_ip_removed_dist(r, f)
observe_remove(r, f) ==
    /\ fip_last' = IF ret' = "ok" /\ fip_last = <<"add", r, f>>
                       THEN <<"add_remove", r, f>>
                       ELSE <<"other">>
    /\ rules_before' = IF ret' = "ok" /\ fip_last = <<"add", r, f>> THEN rules_before ELSE {}
    /\ removed' = IF ret' = "ok" THEN removed \cup {<<r, f>>} ELSE removed
    /\ all_returned' = (all_returned /\ ret' = "ok")

\* the caller has had a router prepared
observe_prepare ==
    /\ fip_last' = <<"other">>
    /\ rules_before' = {}
    /\ removed' = removed
    /\ all_returned' = all_returned

\* ------------------------------------------------------------------- Spec
Init == DvrInit /\ HaInit /\ SnatInit /\ MemoInit /\ ConcInit /\ ObsInit /\ ArpInit
        /\ HapInit /\ IdxInit

Prepare == (\E r \in Routers : create_dvr_fip_interfaces(r)) /\ UNCHANGED non_dvr_vars

AddFip ==
    (\E r \in Routers, f \in Fips : floating_ip_added_dist(r, f, "none"))
    /\ UNCHANGED non_dvr_vars

RemoveFip ==
    (\E r \in Routers, f \in Fips : floating_ip_removed_dist(r, f, "none"))
    /\ UNCHANGED non_dvr_vars

Next == Prepare \/ AddFip \/ RemoveFip

Spec == Init /\ [][Next]_vars

ObsPrepare ==
    /\ nops < MaxObsOps
    /\ \E r \in Routers : create_dvr_fip_interfaces(r) /\ observe_prepare
    /\ UNCHANGED non_obs_vars

ObsAddFip ==
    /\ nops < MaxObsOps
    /\ \E r \in Routers, f \in Fips : floating_ip_added_dist(r, f, "none") /\ observe_add(r, f)
    /\ UNCHANGED non_obs_vars

ObsRemoveFip ==
    /\ nops < MaxObsOps
    /\ \E r \in Routers, f \in Fips :
           floating_ip_removed_dist(r, f, "none") /\ observe_remove(r, f)
    /\ UNCHANGED non_obs_vars

ObsNext == ObsPrepare \/ ObsAddFip \/ ObsRemoveFip

SpecObs == Init /\ [][ObsNext]_vars

ArpUpdate ==
    /\ \E r \in HaRouters, ip \in ArpIps, mac \in ArpMacs, s \in ArpSubnets,
          operation \in ArpOperations, fails \in BOOLEAN :
           call_update_arp_entry(r, ip, mac, s, operation, fails)
    /\ UNCHANGED <<non_arp_vars, ha_vars>>

ArpAddEntry ==
    /\ \E payload \in Payloads, fails \in BOOLEAN : add_arp_entry(payload, fails)
    /\ UNCHANGED <<non_arp_vars, ha_vars>>

ArpDelEntry ==
    /\ \E payload \in Payloads, fails \in BOOLEAN : del_arp_entry(payload, fails)
    /\ UNCHANGED <<non_arp_vars, ha_vars>>

ArpSetSubnetInfo ==
    /\ \E r \in HaRouters, port \in PortArgs, rpc_fails \in BOOLEAN, bad \in SUBSET FailIps :
           set_subnet_arp_info(r, port, rpc_fails, bad)
    /\ UNCHANGED <<non_arp_vars, ha_vars>>

ArpRouterAdded == (\E r \in HaRouters : arp_router_added(r)) /\ UNCHANGED non_arp_vars

ArpRouterRemoved == (\E r \in HaRouters : arp_router_removed(r)) /\ UNCHANGED non_arp_vars

ArpNext ==
    \/ ArpUpdate
    \/ ArpAddEntry
    \/ ArpDelEntry
    \/ ArpSetSubnetInfo
    \/ ArpRouterAdded
    \/ ArpRouterRemoved

SpecArp == Init /\ [][ArpNext]_vars

HaNotify ==
    (\E r \in HaRouters, state \in States : Notify(r, state)) /\ UNCHANGED non_ha_vars

HaSpawnFinish == (\E h \in Handlers : SpawnFinish(h)) /\ UNCHANGED non_ha_vars

HaDestroyFinish == (\E h \in Handlers : DestroyFinish(h)) /\ UNCHANGED non_ha_vars

HaRespond == (\E h \in Handlers : Respond(h)) /\ UNCHANGED non_ha_vars

HaRouterAdded == (\E r \in HaRouters : RouterAdded(r)) /\ UNCHANGED non_ha_vars

HaRouterRemoved == (\E r \in HaRouters : RouterRemoved(r)) /\ UNCHANGED non_ha_vars

IdxHash == (\E w \in HashWords : index_hash(w)) /\ UNCHANGED non_idx_vars

IdxCidr == (\E c \in Cidrs : index_cidr(c)) /\ UNCHANGED non_idx_vars

IdxNext == IdxHash \/ IdxCidr

SpecIdx == Init /\ [][IdxNext]_vars

HapRouterAdded ==
    /\ \E r \in HaRouters, ha_port \in HaPortValues : process_ha_router_added(r, ha_port)
    /\ UNCHANGED non_hap_vars

HapRouterRemoved ==
    /\ \E r \in HaRouters : process_ha_router_removed(r)
    /\ UNCHANGED non_hap_vars

HapNext == HapRouterAdded \/ HapRouterRemoved

SpecHaSetup == Init /\ [][HapNext]_vars

SerNotify ==
    (\E r \in HaRouters, state \in Tokens : notify_serially(r, state))
    /\ UNCHANGED non_ha_vars

SerNext ==
    \/ SerNotify
    \/ HaSpawnFinish
    \/ HaDestroyFinish
    \/ HaRespond
    \/ HaRouterAdded
    \/ HaRouterRemoved

SpecHASerial == Init /\ [][SerNext]_vars

HaNext ==
    \/ HaNotify
    \/ HaSpawnFinish
    \/ HaDestroyFinish
    \/ HaRespond
    \/ HaRouterAdded
    \/ HaRouterRemoved

SpecHA == Init /\ [][HaNext]_vars

FaultPrepare ==
    /\ nops < MaxFaultOps
    /\ \E r \in Routers : create_dvr_fip_interfaces(r)
    /\ UNCHANGED non_dvr_vars

FaultAddFip ==
    /\ nops < MaxFaultOps
    /\ \E r \in Routers, f \in Fips, fail \in AddFaults : floating_ip_added_dist(r, f, fail)
    /\ UNCHANGED non_dvr_vars

FaultRemoveFip ==
    /\ nops < MaxFaultOps
    /\ \E r \in Routers, f \in Fips, fail \in RemoveFaults :
           floating_ip_removed_dist(r, f, fail)
    /\ UNCHANGED non_dvr_vars

FaultNext == FaultPrepare \/ FaultAddFip \/ FaultRemoveFip

SpecFault == Init /\ [][FaultNext]_vars

MemoGet ==
    (\E a \in RawIds : call_get_fip_ns(a)) /\ UNCHANGED <<ha_vars, snat_vars, conc_vars, obs_vars, arp_vars, hap_vars, idx_vars>>

MemoDestroy ==
    (\E n \in ExtNets : destroy_fip_namespace(get_name(n))) /\ UNCHANGED <<ha_vars, snat_vars, conc_vars, obs_vars, arp_vars, hap_vars, idx_vars>>

MemoPrepare ==
    (\E r \in Routers : create_dvr_fip_interfaces(r)) /\ UNCHANGED non_dvr_vars

MemoNext == MemoGet \/ MemoDestroy \/ MemoPrepare

SpecMemo == Init /\ [][MemoNext]_vars

ConcPrepare ==
    /\ nops < MaxConcOps
    /\ \E r \in Routers : conc_prepare(r)
    /\ UNCHANGED non_conc_vars

ConcAddFip ==
    /\ nops < MaxConcOps
    /\ \E r \in Routers, f \in Fips : conc_add(r, f)
    /\ UNCHANGED non_conc_vars

ConcRemBegin ==
    /\ nops < MaxConcOps
    /\ \E r \in Routers, f \in Fips : rem_begin(r, f)
    /\ UNCHANGED non_conc_vars

ConcRemTeardown == (\E r \in Routers : rem_teardown(r)) /\ UNCHANGED non_conc_vars

ConcRemUnsubscribe == (\E r \in Routers : rem_unsubscribe(r)) /\ UNCHANGED non_conc_vars

ConcRemDestroy == (\E r \in Routers : rem_destroy(r)) /\ UNCHANGED non_conc_vars

ConcNext ==
    \/ ConcPrepare
    \/ ConcAddFip
    \/ ConcRemBegin
    \/ ConcRemTeardown
    \/ ConcRemUnsubscribe
    \/ ConcRemDestroy

SpecConc == Init /\ [][ConcNext]_vars

SnatIdx == (\E c \in Cidrs : call_get_snat_idx(c)) /\ UNCHANGED non_snat_vars

SnatRedirectAdd ==
    (\E c \in Cidrs, fail \in AddFailures : snat_redirect_add(c, "gw", fail))
    /\ UNCHANGED non_snat_vars

SnatRedirectRemove ==
    (\E c \in Cidrs, fail \in RemoveFailures : snat_redirect_remove(c, fail))
    /\ UNCHANGED non_snat_vars

SnatNext == SnatIdx \/ SnatRedirectAdd \/ SnatRedirectRemove

SpecSnat == Init /\ [][SnatNext]_vars

\* =================================================== floating-IP claims

Keys(r) == {f \in Fips : floating_ips_dict[r][f] # NoPriority}

Associated(r) == {f \in Fips : <<r, f>> \in assoc}

\* C1: after every call, each router's dist_fip_count equals the number of
\* its currently associated floating IPs and the number of keys of its
\* floating_ips_dict.
C1_CountIsCardinality ==
    \A r \in Routers :
        /\ dist_fip_count[r] = Cardinality(Associated(r))
        /\ dist_fip_count[r] = Cardinality(Keys(r))

\* C2: no two floating IPs associated at the same time through the same FIP
\* namespace hold the same rule priority.
C2_NoSharedPriority ==
    \A a \in assoc, b \in assoc :
        (a # b /\ ri_fip_ns[a[1]] = ri_fip_ns[b[1]])
            => floating_ips_dict[a[1]][a[2]] # floating_ips_dict[b[1]][b[2]]

\* the allocator free sets and the subscriber sets of all FipNamespace objects
FreeSets == [h \in Handles |-> fip_ns_objs[h].free]

SubscriberSets == [h \in Handles |-> fip_ns_objs[h].subscribers]

\* C3: floating_ip_removed_dist for a floating IP never added to the router
\* (a router that has its FIP namespace) returns normally and leaves the
\* count, the table, the lease, the free sets, the subscriber sets and the
\* namespace as they were.
C3_RemoveNeverAddedIsNoOp ==
    [][\A r \in Routers, f \in Fips :
          (/\ ri_fip_ns[r] # NoHandle
           /\ floating_ips_dict[r][f] = NoPriority
           /\ floating_ip_removed_dist(r, f, "none"))
          => /\ ret' = "ok"
             /\ dist_fip_count'[r] = dist_fip_count[r]
             /\ floating_ips_dict'[r] = floating_ips_dict[r]
             /\ rtr_fip_subnet'[r] = rtr_fip_subnet[r]
             /\ FreeSets' = FreeSets
             /\ SubscriberSets' = SubscriberSets
             /\ fip_netns' = fip_netns]_vars

DestroyIssued(h) == ~fip_ns_objs[h].destroyed /\ fip_ns_objs'[h].destroyed

BecomesEmpty(h) ==
    fip_ns_objs[h].subscribers # {} /\ fip_ns_objs'[h].subscribers = {}

\* C4: a FIP namespace is destroyed if and only if its subscriber set goes
\* from non-empty to empty: a destroy is issued only in a step that empties
\* the set, and every step that empties the set issues the destroy.
C4_DestroyIffLastUnsubscribe ==
    [][\A h \in Handles : DestroyIssued(h) <=> BecomesEmpty(h)]_vars

\* C5: r1 adds f1, then r2 on the same external network adds f2: the
\* namespace is created once and shared; removing f1 from r1 leaves it in
\* place; removing f2 from r2 afterwards destroys it.
C5_SharedNamespaceScenario ==
    /\ scen \in {4, 5} =>
          /\ ns_creates["ext1"] = 1
          /\ ns_destroys["ext1"] = 0
          /\ fip_netns["ext1"]
          /\ fip_namespaces["ext1"] # NoHandle
          /\ ri_fip_ns["r1"] = fip_namespaces["ext1"]
          /\ ri_fip_ns["r2"] = fip_namespaces["ext1"]
          /\ ~fip_ns_objs[fip_namespaces["ext1"]].destroyed
    /\ scen = 4 => fip_ns_objs[fip_namespaces["ext1"]].subscribers = {"r1", "r2"}
    /\ scen = 5 => fip_ns_objs[fip_namespaces["ext1"]].subscribers = {"r2"}
    /\ scen = 6 =>
          /\ ns_creates["ext1"] = 1
          /\ ns_destroys["ext1"] = 1
          /\ ~fip_netns["ext1"]
          /\ fip_namespaces["ext1"] = NoHandle
          /\ fip_ns_objs[ri_fip_ns["r2"]].destroyed

C5_Witness == scen = 6 /\ ret = "ok"

\* ================================================= HA notification claims

\* the handlers of the notifications received for router r
NotifsFor(r) == {h \in 1..nrecv : h_router[h] = r}

\* every notification received for r was handled to the end, none raised
Done(r) == \A h \in NotifsFor(r) : h_pc[h] \in {"returned", "responded"}

\* r has received exactly the tokens first, second, in this order
Received(r, first, second) ==
    \E a \in 1..nrecv, b \in 1..nrecv :
        /\ a < b
        /\ NotifsFor(r) = {a, b}
        /\ h_state[a] = first
        /\ h_state[b] = second

LastFor(r) == CHOOSE h \in NotifsFor(r) : \A g \in NotifsFor(r) : g <= h

\* C6, as claimed: two 'master' notifications in a row make the
\* monitored-process primitive receive exactly one spawn call.
C6_OneSpawnCall ==
    \A r \in HaRouters :
        (Received(r, "master", "master") /\ Done(r)) => spawn_calls[r] = 1

\* C6, amended: two 'master' notifications in a row make the agent call the
\* spawn primitive once per notification (two calls) and the destroy
\* primitive never; the proxy is running afterwards.
C6_SpawnCallPerNotification ==
    \A r \in HaRouters :
        (Received(r, "master", "master") /\ Done(r))
            => /\ spawn_calls[r] = 2
               /\ destroy_calls[r] = 0
               /\ proxy[r]

C6_Witness ==
    /\ Received("r1", "master", "master")
    /\ \A h \in NotifsFor("r1") : h_pc[h] = "responded"
    /\ proxy_starts["r1"] = 1

\* C7: once all handlers of a managed router's notifications have finished,
\* the proxy runs if and only if the last notification received was
\* 'master', and every notification has had its spawn or destroy call.
C7_FinalStateMatchesLast ==
    \A r \in HaRouters :
        (NotifsFor(r) # {} /\ Done(r))
            => /\ proxy[r] <=> (h_state[LastFor(r)] = "master")
               /\ spawn_calls[r] + destroy_calls[r] = Cardinality(NotifsFor(r))

\* C8: for 'master' immediately followed by 'backup' for one router, the
\* destroy is not started while the spawn is still in progress, and the
\* proxy is not running once both are handled.
C8_SpawnBeforeDestroy ==
    \A r \in HaRouters :
        Received(r, "master", "backup") =>
            /\ \A h \in NotifsFor(r) : h_pc[h] # "spawning"
            /\ Done(r) => ~proxy[r]

\* C9: a notification for a router that is not in router_info is dropped:
\* the handler returns normally and calls neither spawn nor destroy.
C9_UnmanagedDropped ==
    [][\A r \in HaRouters, state \in States :
          (r \notin router_info /\ Notify(r, state))
          => /\ h_pc'[nrecv'] = "returned"
             /\ spawn_calls' = spawn_calls
             /\ destroy_calls' = destroy_calls]_vars

\* C10: the response to a notification does not wait for the spawn or the
\* destroy of the proxy: while the primitive is still at work, the listener
\* can already respond.
C10_ResponseDoesNotWait ==
    \A h \in Handlers :
        h_pc[h] \in {"spawning", "destroying"} => ENABLED Respond(h)

\* ------------------------------------------------------------ SNAT index
\* the number a 32-bit word stands for, where it is below 2^31
WordInt(w) == w.hi * 65536 + w.lo

Ipv4Cidrs == {c \in Cidrs : c.version = 4}

\* C11: for every input CIDR, IPv4 or IPv6, the index _get_snat_idx returns
\* is at least 32768.
C11_IndexAtLeast32768 ==
    \A t \in CidrTexts : snat_seen[t] # NoIdx => ~below_32768(snat_seen[t])

\* C12 as stated: for every IPv4 CIDR, host bits set or not, the index is the
\* 32-bit value of the network's base address; for 10.0.0.0/24 it is 167772160.
C12_IndexIsNetworkBase ==
    \A c \in Ipv4Cidrs :
        snat_seen[c.text] # NoIdx =>
            /\ snat_seen[c.text] = IPNetwork_first(c)
            /\ c.text = "10.0.0.0/24" => WordInt(snat_seen[c.text]) = 167772160

\* C12 amended: for every IPv4 CIDR the index is the 32-bit value of the
\* address part as written, host bits included; for 10.0.0.0/24 it is
\* 167772160 and for 10.0.0.5/24 it is 167772165.
C12_IndexIsAddressAsWritten ==
    \A c \in Ipv4Cidrs :
        snat_seen[c.text] # NoIdx =>
            /\ snat_seen[c.text].hi = c.octets[1] * 256 + c.octets[2]
            /\ snat_seen[c.text].lo = c.octets[3] * 256 + c.octets[4]
            /\ c.text = "10.0.0.0/24" => WordInt(snat_seen[c.text]) = 167772160
            /\ c.text = "10.0.0.5/24" => WordInt(snat_seen[c.text]) = 167772165

C12_Witness ==
    /\ snat_seen["10.0.0.0/24"] # NoIdx
    /\ snat_seen["10.0.0.5/24"] # NoIdx

C17_RedirectFailuresSwallowed ==
    [][/\ snat_ret' \in {"none", "ok"}
       /\ snat_fault' # "none" => (snat_ret' = "ok" /\ snat_logged' = snat_logged + 1)]_vars

C17_Witness ==
    /\ snat_fault = "sysctl"
    /\ snat_ret = "ok"
    /\ snat_logged >= 3

CidrOf(t) == CHOOSE c \in Cidrs : c.text = t

\* C18 as stated: after redirect_add then redirect_remove for the same port
\* with no failure, the route, the rule and ICMP send-redirects are as they
\* were before the add.
C18_RemoveReversesThreeEffects ==
    snat_last[1] = "add_remove" =>
        /\ routes = snat_before.routes
        /\ rules = snat_before.rules
        /\ send_redirects = snat_before.send_redirects

\* C18 amended: after redirect_add then redirect_remove for the same port
\* with no failure, the port's default route in its table and its policy rule
\* are absent, everything else in the routes and rules is as before the add,
\* and send_redirects of the port's interface is 0: remove does not restore it.
C18_RemoveReversesRouteAndRule ==
    snat_last[1] = "add_remove" =>
        LET c == CidrOf(snat_last[2])
            idx == snat_seen[c.text]
        IN  /\ routes = {rt \in snat_before.routes : ~(rt[1] = c.dev /\ rt[2] = idx)}
            /\ rules = snat_before.rules \ {<<c.text, idx, idx>>}
            /\ send_redirects = [snat_before.send_redirects EXCEPT ![c.dev] = 0]

C18_Witness ==
    /\ snat_last[1] = "add_remove"
    /\ snat_before.send_redirects[CidrOf(snat_last[2]).dev] = 1
    /\ snat_before.routes # {}

\* ---------------------------------------------------------- get_fip_ns
MemoizedOnce ==
    /\ \A a \in RawIds :
           got[a] # NoHandle =>
               /\ got[a] = fip_namespaces[Str(a)]
               /\ fip_ns_objs[got[a]].net = a.text
               /\ ~fip_ns_objs[got[a]].destroyed
    /\ \A a \in RawIds, b \in RawIds :
           (got[a] # NoHandle /\ got[b] # NoHandle) => (got[a] = got[b] <=> a.text = b.text)

\* C14: get_fip_ns constructs the namespace handle of an external network on
\* the first call and returns that same handle on every later call until the
\* namespace is destroyed; ids with the same str() form get the same handle,
\* different networks get different handles, and the memo holds at most one
\* handle per network.
C14_GetFipNsMemoized ==
    [][/\ MemoizedOnce'
       /\ \A a \in RawIds :
              (got'[a] # NoHandle /\ got'[a] # got[a]) =>
                  IF fip_namespaces[a.text] = NoHandle
                      THEN got'[a] = nobjs + 1 /\ nobjs' = nobjs + 1
                      ELSE got'[a] = fip_namespaces[a.text] /\ nobjs' = nobjs]_vars

C14_Witness ==
    /\ got[[kind |-> "unicode", text |-> "ext1"]] > 1
    /\ got[[kind |-> "str", text |-> "ext1"]] = got[[kind |-> "unicode", text |-> "ext1"]]
    /\ got[[kind |-> "str", text |-> "ext2"]] # NoHandle
    /\ ns_destroys["ext1"] > 0

\* ------------------------------------------------- floating-IP failures
\* C19: when the rule-priority allocator has no free priority,
\* floating_ip_added_dist raises the allocator's error and has changed nothing:
\* no policy rule, no route, no gratuitous ARP, and the router's floating-IP
\* table and count are as before the call.
C19_ExhaustedAddChangesNothing ==
    [][\A r \in Routers :
           (/\ ri_fip_ns[r] # NoHandle
            /\ allocate_rule_priority(fip_ns_objs, ri_fip_ns[r]) = {}
            /\ \E f \in Fips, fail \in AddFaults : floating_ip_added_dist(r, f, fail))
           => /\ ret' = "ExhaustedError"
              /\ UNCHANGED <<ip_rules, fip_routes, garps, floating_ips_dict,
                             dist_fip_count, fip_ns_objs>>]_vars

C19_Witness ==
    /\ ret = "ExhaustedError"
    /\ ip_rules # {}
    /\ \E r \in Routers : dist_fip_count[r] = MaxPriorities

\* C20: when a primitive (policy rule, route, gratuitous ARP, gateway or link
\* delete) fails during floating_ip_added_dist or floating_ip_removed_dist,
\* the failure reaches the caller: the call does not return normally.
C20_PrimitiveFailurePropagates ==
    fault # "none" => ret = "PrimitiveFailure"

C20_Witness ==
    /\ fault = "veth"
    /\ ret = "PrimitiveFailure"
    /\ \E r \in Routers : dist_fip_count[r] = 0 /\ ~rtr_gateway[r] /\ fip_veth[r]

\* -------------------------------------------------- interleaved removals
\* both routers were prepared and given one floating IP on the shared
\* namespace, and since then nothing ran but their removals of it
BothRemoving == \A r \in Routers : sc[r] \in {"removing", "done"}

BothDone == \A r \in Routers : sc[r] = "done"

\* C15: when two routers that share one FIP namespace remove their last
\* floating IP at the same time, at most one of them sees its unsubscribe
\* return True, and once both are through exactly one destroy was issued for
\* the namespace.
C15_OneDestroyForTwoRemovals ==
    BothRemoving =>
        /\ Cardinality({r \in Routers : saw_last[r]}) <= 1
        /\ ns_destroys["ext1"] <= 1
        /\ BothDone =>
               /\ Cardinality({r \in Routers : saw_last[r]}) = 1
               /\ ns_destroys["ext1"] = 1
               /\ ~fip_netns["ext1"]

C15_Witness == BothDone /\ overlapped

Subscribed(r) ==
    /\ ri_fip_ns[r] # NoHandle
    /\ r \in fip_ns_objs[ri_fip_ns[r]].subscribers

\* C16: a router prepared (get_fip_ns, subscribe) while another router's
\* destroy of that network's namespace is running is not left attached to a
\* namespace that is gone: once no call is in progress, a subscribed router's
\* namespace exists.
C16_NoAttachToTornDown ==
    (\A r \in Routers : pc[r] = "idle") =>
        \A r \in Routers :
            (raced[r] /\ Subscribed(r)) => fip_netns[fip_ns_objs[ri_fip_ns[r]].net]

\* what the allocator and the subscriber set of every namespace hold
AllocatorView == [h \in Handles |-> <<fip_ns_objs[h].free, fip_ns_objs[h].subscribers>>]

\* C21: removing a floating IP a second time, with no add of it in between,
\* returns normally and changes nothing: the count, the floating-IP table, the
\* allocator's free set, the policy rules, the subscriber set and the
\* existence of the namespace stay as they were.
C21_SecondRemovalChangesNothing ==
    [][\A r \in Routers, f \in Fips :
          (<<r, f>> \in removed /\ floating_ip_removed_dist(r, f, "none"))
              => /\ ret' = "ok"
                 /\ AllocatorView' = AllocatorView
                 /\ UNCHANGED <<dist_fip_count, floating_ips_dict, ip_rules, fip_netns>>]_vars

\* C22: add installs a policy rule matching the fixed IP at the allocated
\* priority and remove deletes that rule: after an add followed by the remove
\* of the same floating IP the router namespace's rules are those from before
\* the add.
C22_RemoveDeletesTheAddedRule ==
    fip_last[1] = "add_remove" => ip_rules = rules_before

\* ri.rtr_fip_subnet is set and the namespace's pool records the lease
LeaseHeld(r) ==
    /\ rtr_fip_subnet[r]
    /\ ri_fip_ns[r] # NoHandle
    /\ r \in fip_ns_objs[ri_fip_ns[r]].local_subnets

\* C23: after every add or remove call the router holds a lease exactly when
\* its floating-IP count is above zero.
C23_LeaseIffCountPositive ==
    [][\A r \in Routers, f \in Fips :
          (floating_ip_added_dist(r, f, "none") \/ floating_ip_removed_dist(r, f, "none"))
              => (LeaseHeld(r)' <=> dist_fip_count'[r] > 0)]_vars

\* C24: an add on a router that holds no lease (a new router, or one whose
\* lease a remove released when its count returned to zero) acquires a lease
\* and ends with the route installed; it fails only when no priority is free.
C24_FirstAddLeases ==
    [][\A r \in Routers, f \in Fips :
          (~rtr_fip_subnet[r] /\ floating_ip_added_dist(r, f, "none"))
              => \/ ret' = "ExhaustedError"
                 \/ /\ ret' = "ok"
                    /\ LeaseHeld(r)'
                    /\ \E n \in ExtNets : <<n, f, r>> \in fip_routes']_vars

\* the teardown statements of floating_ip_removed_dist in the order the claim gives
TeardownOrder == <<"delete_gateway", "release", "del_veth", "unsubscribe", "destroy">>

IsPrefix(s, t) == Len(s) <= Len(t) /\ \A i \in 1..Len(s) : s[i] = t[i]

Logged(step) == \E i \in 1..Len(td_log) : td_log[i] = step

\* C28: a removal tears down only when its decrement brings the count to
\* exactly zero, and then in this order: delete the router's default route
\* toward the FIP namespace, release the lease, remove the link device,
\* unsubscribe, and destroy the namespace only if the unsubscribe reported
\* the router as the last subscriber. When the count after the decrement is
\* not zero, none of these happens.
C28_TeardownOnlyAtZeroInOrder ==
    [][\A r \in Routers, f \in Fips, fail \in RemoveFaults :
          floating_ip_removed_dist(r, f, fail) =>
              LET h == ri_fip_ns[r]
              IN  /\ IsPrefix(td_log', TeardownOrder)
                  /\ td_log' # <<>> => dist_fip_count'[r] = 0
                  /\ Logged("destroy")' => fip_ns_objs'[h].subscribers = {}
                  /\ (Logged("unsubscribe")' /\ ~Logged("destroy")') =>
                         fip_ns_objs'[h].subscribers # {}
                  /\ (h # NoHandle /\ dist_fip_count'[r] # 0) =>
                         /\ td_log' = <<>>
                         /\ fip_ns_objs'[h].subscribers = fip_ns_objs[h].subscribers
                         /\ fip_ns_objs'[h].local_subnets = fip_ns_objs[h].local_subnets
                         /\ UNCHANGED <<rtr_gateway, fip_veth, ns_destroys, fip_netns>>]_vars

C28_Witness == td_log = TeardownOrder /\ fault = "none"

\* C29: redirect_add with no failure adds a default route toward the gateway
\* in the table whose number is the SNAT index, adds one policy rule matching
\* the subnet CIDR whose table and priority both equal that index, and
\* disables send-redirects on the internal device; when the route add fails,
\* the rule is not added.
C29_RedirectAddEffects ==
    [][\A c \in Cidrs, fail \in AddFailures :
          (snat_fault' = fail /\ snat_redirect_add(c, "gw", fail)) =>
              LET idx == snat_seen'[c.text]
              IN  /\ fail = "none" =>
                         /\ idx # NoIdx
                         /\ routes' = routes \cup {<<c.dev, idx, "gw">>}
                         /\ rules' = rules \cup {<<c.text, idx, idx>>}
                         /\ send_redirects' = [send_redirects EXCEPT ![c.dev] = 0]
                  /\ fail = "route" => (rules' = rules /\ routes' = routes)]_vars

C29_Witness ==
    /\ snat_last[1] = "add"
    /\ Cardinality(rules) = 2
    /\ Cardinality(routes) = 2
    /\ \E d \in Devices : send_redirects[d] = 0

\* the devices of the router's internal ports that have a fixed IP on the subnet
DevicesOn(r, subnet_id) ==
    {get_internal_device_name(router_ports(r)[i].id) :
        i \in {k \in 1..Len(router_ports(r)) :
                  \E j \in 1..Len(router_ports(r)[k].fixed_ips) :
                      router_ports(r)[k].fixed_ips[j] = subnet_id}}

\* C25: _update_arp_entry with operation add (delete) applies (removes) exactly
\* one neighbor entry, on the router's internal device for that subnet; when
\* the router has no internal port with a fixed IP on the subnet it calls no
\* neighbor primitive and leaves the resync flag as it was.
C25_UpdateAppliesOneEntry ==
    [][\A r \in HaRouters, ip \in ArpIps, mac \in ArpMacs, s \in ArpSubnets,
          operation \in ArpOperations :
          (arp_last' = <<"update_arp_entry", r>>
           /\ call_update_arp_entry(r, ip, mac, s, operation, FALSE)) =>
              /\ (DevicesOn(r, s) # {} /\ IPNetwork_version(ip) # NoVersion) =>
                     /\ Len(arp_calls') = 1
                     /\ arp_calls'[1][1] = operation
                     /\ arp_calls'[1][2] = r
                     /\ arp_calls'[1][3] \in DevicesOn(r, s)
                     /\ arp_calls'[1][4] = (IF ip = "fe80::3" THEN 6 ELSE 4)
                     /\ arp_calls'[1][5] = ip
                     /\ arp_calls'[1][6] = mac
                     /\ neigh' = IF operation = "add"
                                    THEN neigh \cup {<<r, arp_calls'[1][3], ip, mac>>}
                                    ELSE neigh \ {<<r, arp_calls'[1][3], ip, mac>>}
                     /\ fullsync' = fullsync
              /\ DevicesOn(r, s) = {} =>
                     /\ arp_calls' = <<>>
                     /\ arp_ret' = "ok"
                     /\ UNCHANGED <<neigh, fullsync>>]_vars

\* a delete that left one other entry in the table
C25_Witness ==
    /\ arp_last[1] = "update_arp_entry"
    /\ Len(arp_calls) = 1
    /\ arp_calls[1][1] = "delete"
    /\ Cardinality(neigh) = 1
    /\ arp_fault = "none"

\* C26: any failure in the ARP path (_set_subnet_arp_info, _update_arp_entry)
\* sets the resync flag, is not retried inline and is not raised to the
\* caller; without a failure the flag stays as it was.
C26_ArpFailureSetsFullsync ==
    [][arp_last'[1] \in {"update_arp_entry", "set_subnet_arp_info"} =>
          /\ arp_fault' # "none" =>
                 /\ fullsync'
                 /\ arp_ret' = "ok"
                 /\ \A i, j \in 1..Len(arp_calls') : arp_calls'[i] = arp_calls'[j] => i = j
          /\ arp_fault' = "none" => fullsync' = fullsync]_vars

\* C27: an ARP add or delete event that names a router this agent does not
\* track returns normally, calls no neighbor primitive and leaves the resync
\* flag as it was.
C27_UntrackedRouterEventIsNoOp ==
    [][\A payload \in Payloads, fails \in BOOLEAN :
          (/\ payload.router_id \notin router_info
           /\ arp_last'[1] \in ArpOperations
           /\ add_arp_entry(payload, fails) \/ del_arp_entry(payload, fails))
              => /\ arp_ret' = "ok"
                 /\ arp_calls' = <<>>
                 /\ UNCHANGED <<neigh, fullsync>>]_vars

\* an event for an untracked router arrived while entries were installed
C27_Witness ==
    /\ arp_last[1] \in {"add", "delete"}
    /\ arp_last[2] \notin router_info
    /\ neigh # {}
    /\ arp_ret = "ok"

\* the <<ip, mac>> pairs of the subnet's ports that are (are not) owned by a
\* router interface
OwnerPairs(subnet_id, router_owned) ==
    LET ports == get_ports_by_subnet(subnet_id)
    IN  UNION {{<<ports[i].fixed_ips[j], ports[i].mac_address>> :
                   j \in 1..Len(ports[i].fixed_ips)} :
               i \in {k \in 1..Len(ports) :
                         (ports[k].device_owner \in ROUTER_INTERFACE_OWNERS) = router_owned}}

Requested == {arp_requests[i] : i \in 1..Len(arp_requests)}

\* C30: _set_subnet_arp_info does nothing when the router is not distributed
\* or the port's subnet has no id; otherwise it requests a neighbor add for
\* every fixed IP of every port on the subnet whose device owner is not a
\* router-interface owner, and for no port whose owner is one.
C30_SyncRequestsNonRouterPorts ==
    [][\A r \in HaRouters, port \in PortArgs, bad \in SUBSET FailIps :
          (arp_last' = <<"set_subnet_arp_info", r>>
           /\ set_subnet_arp_info(r, port, FALSE, bad)) =>
              IF "id" \notin DOMAIN port.subnet \/ ~distributed(r)
                  THEN /\ arp_requests' = <<>>
                       /\ arp_calls' = <<>>
                       /\ arp_fetched' = "-"
                       /\ arp_ret' = "ok"
                       /\ UNCHANGED <<neigh, fullsync>>
                  ELSE /\ Requested' = OwnerPairs(port.subnet.id, FALSE)
                       /\ Requested' \cap OwnerPairs(port.subnet.id, TRUE) = {}
                       /\ Len(arp_requests') = Cardinality(Requested')
                       /\ \A i \in 1..Len(arp_calls') :
                              /\ arp_calls'[i][1] = "add"
                              /\ <<arp_calls'[i][5], arp_calls'[i][6]>> \in Requested']_vars

C30_Witness ==
    /\ arp_last[1] = "set_subnet_arp_info"
    /\ Len(arp_requests) = 3
    /\ Len(arp_calls) = 3
    /\ arp_fault = "none"

\* ------------------------------------------- notifications applied serially
\* the notifications for r that found it managed
AppliedFor(r) == {h \in NotifsFor(r) : h_pc[h] # "raised"}

LastApplied(r) == CHOOSE h \in AppliedFor(r) : \A g \in AppliedFor(r) : g <= h

\* C31: a 'master' token requests a spawn of the router's metadata proxy and a
\* 'backup' token requests its destroy, which does nothing when no proxy is
\* running; after any sequence of notifications applied one after the other
\* for a managed router the proxy is running if and only if the last applied
\* token was 'master'.
C31_ProxyFollowsLastToken ==
    \A r \in HaRouters :
        LET applied == AppliedFor(r)
        IN  /\ spawn_calls[r] = Cardinality({h \in applied : h_state[h] = "master"})
            /\ destroy_calls[r] >= Cardinality({h \in applied : h_state[h] = "backup"})
            /\ (applied # {} /\ ~InProgress(r)) =>
                   (proxy[r] <=> h_state[LastApplied(r)] = "master")

C31_Witness ==
    /\ Received("r1", "master", "backup")
    /\ Done("r1")
    /\ proxy_starts["r1"] = 1
    /\ ~proxy["r1"]

\* C40: a notification whose state token is neither 'master' nor 'backup' for
\* a managed router is handled like 'backup': the destroy of the metadata proxy
\* is requested and no spawn is requested.
C40_UnknownTokenIsBackup ==
    [][\A r \in HaRouters, state \in Tokens \ States :
          (r \in router_info /\ Notify(r, state))
              => /\ destroy_calls' = [destroy_calls EXCEPT ![r] = @ + 1]
                 /\ spawn_calls' = spawn_calls
                 /\ h_pc'[nrecv'] = (IF proxy[r] THEN "destroying" ELSE "returned")]_vars

C40_Witness ==
    \E h \in 1..nrecv :
        /\ h_state[h] = "fault"
        /\ h_pc[h] = "responded"
        /\ proxy_starts[h_router[h]] = 1
        /\ ~proxy[h_router[h]]

\* ------------------------------------------------------- HA router set-up
\* the place of a call in the last call's record, 0 when it was not made
CallIndex(calls, name) ==
    IF \E i \in 1..Len(calls) : calls[i] = name
        THEN CHOOSE i \in 1..Len(calls) : calls[i] = name
        ELSE 0

\* C32: process_ha_router_added on a router record without an HA port logs an
\* error and changes nothing: ri.ha_port is not set, no keepalived manager is
\* initialised, no HA network is added, no initial-state callback is
\* registered and no state-change monitor is spawned; with an HA port, the
\* initial-state callback is registered before the monitor is spawned.
C32_NoHaPortNoSetup ==
    [][\A r \in HaRouters, ha_port \in HaPortValues :
          process_ha_router_added(r, ha_port) =>
              IF ha_port \in {"None", "{}"}
                  THEN /\ ha_errors' = ha_errors + 1
                       /\ ha_calls' = <<>>
                       /\ UNCHANGED <<ri_ha_port, ha_effects>>
                  ELSE /\ CallIndex(ha_calls', "update_initial_state") > 0
                       /\ CallIndex(ha_calls', "update_initial_state")
                              < CallIndex(ha_calls', "spawn_state_change_monitor")
                       /\ ri_ha_port'[r] = ha_port
                       /\ {"initial_state_callback", "state_change_monitor"}
                              \subseteq ha_effects'[r]
                       /\ ha_errors' = ha_errors]_vars

\* a record without HA port was refused for one router after another router
\* was set up
C32_Witness ==
    /\ ha_errors > 0
    /\ ha_calls = <<>>
    /\ \E r \in HaRouters : ri_ha_port[r] = "None" /\ ha_effects[r] = {}
    /\ \E r \in HaRouters : ri_ha_port[r] = "ha-port"

\* ------------------------------------------------------ SNAT index range
\* a number of 0..2^32-1, as two halves
Fits32(w) == w.hi \in 0..65535 /\ w.lo \in 0..65535

\* C33: the SNAT index fits in 32 bits: for every IPv4 input, and for every
\* 32-bit hash of an IPv6 input (folded to 30 bits, offset by 0x3fffffff when
\* the folded value is below 32768), the result is at most 2^32 - 1.
C33_IndexFits32Bits ==
    \A i \in 1..Len(drawn) : Fits32(drawn[i].idx)

\* an IPv4 index and an offset IPv6 index were computed
C33_Witness ==
    /\ Len(drawn) = 2
    /\ drawn[1].version = 6 /\ below_32768(drawn[1].folded) /\ drawn[1].folded.lo = 32767
    /\ drawn[2].version = 4 /\ drawn[2].idx.hi >= 49152

\* C34: in the IPv6 branch the range the offset values land in is free: no
\* folded value below 32768, once 0x3fffffff is added, equals a value that
\* another hash gives without the offset.
C34_OffsetRangeFree ==
    \A i, j \in 1..Len(drawn) :
        (/\ drawn[i].version = 6 /\ drawn[j].version = 6
         /\ below_32768(drawn[i].folded) /\ ~below_32768(drawn[j].folded))
            => drawn[i].idx # drawn[j].idx

\* ----------------------------------------------- failed add after allocation
\* C35: when floating_ip_added_dist fails with a primitive failure after the
\* rule priority was allocated (rule add, route add or gratuitous ARP), the
\* router and the allocator are as before the call: the floating-IP table is
\* unchanged (the address is not entered), the priority is free again, and
\* the count is unchanged.
C35_FailedAddRollsBack ==
    [][\A fail \in AddFaults \ {"none"} :
           (/\ fault' = fail
            /\ \E r \in Routers, f \in Fips : floating_ip_added_dist(r, f, fail))
           => /\ floating_ips_dict' = floating_ips_dict
              /\ FreeSets' = FreeSets
              /\ dist_fip_count' = dist_fip_count]_vars

\* --------------------------------------------------------- count and link
\* C36: the distributed-floating-IP count of a router is never negative,
\* whatever add_floating_ip and remove_floating_ip calls were made, removes of
\* never-added addresses and repeated removes included.
C36_CountNeverNegative ==
    \A r \in Routers : dist_fip_count[r] >= 0

\* C37: while a router has an associated floating IP (added and not removed),
\* its FIP link is up (default route, lease, link device, subscription) and
\* the FIP namespace of its network exists.
C37_LinkUpWhileAssociated ==
    \A a \in assoc :
        /\ rtr_gateway[a[1]]
        /\ LeaseHeld(a[1])
        /\ fip_veth[a[1]]
        /\ Subscribed(a[1])
        /\ ri_fip_ns[a[1]] # NoHandle
        /\ fip_netns[fip_ns_objs[ri_fip_ns[a[1]]].net]

\* ------------------------------------------------------ priority leaks
\* the entries of the floating-IP tables of the routers on namespace object h
\* whose value is priority p
EntriesHolding(h, p) ==
    {a \in Routers \X Fips : ri_fip_ns[a[1]] = h /\ floating_ips_dict[a[1]][a[2]] = p}

\* C38: no rule priority is leaked: when every add and remove so far returned
\* normally, each priority an allocator has handed out and not received back
\* is the value of exactly one entry of some router's floating-IP table.
C38_NoPriorityLeaked ==
    all_returned =>
        \A h \in Handles :
            ~fip_ns_objs[h].destroyed =>
                \A p \in Priorities \ fip_ns_objs[h].free :
                    Cardinality(EntriesHolding(h, p)) = 1

\* ------------------------------------------------- failures during a pass
\* C39: in _set_subnet_arp_info a neighbor-primitive failure on one (IP, MAC)
\* entry does not stop the pass: the neighbor add is attempted once for every
\* fixed IP of every port requested, the ones after the failing entry
\* included, the call returns normally and fullsync is true at the end.
C39_FailureDoesNotStopPass ==
    [][\A r \in HaRouters, port \in PortArgs, bad \in SUBSET FailIps :
          (/\ arp_last' = <<"set_subnet_arp_info", r>>
           /\ set_subnet_arp_info(r, port, FALSE, bad)
           /\ "id" \in DOMAIN port.subnet
           /\ distributed(r)
           /\ get_internal_port(r, port.subnet.id) # NoPort
           /\ \E i \in 1..Len(arp_requests') : arp_requests'[i][1] \in bad)
          => /\ fullsync'
             /\ arp_ret' = "ok"
             /\ Len(arp_calls') = Len(arp_requests')
             /\ \A i \in 1..Len(arp_requests') :
                    /\ arp_calls'[i][1] = "add"
                    /\ <<arp_calls'[i][5], arp_calls'[i][6]>> = arp_requests'[i]]_vars

\* the first entry of a pass of three failed, the other two were installed
C39_Witness ==
    /\ arp_last[1] = "set_subnet_arp_info"
    /\ arp_fault = "neigh"
    /\ fullsync
    /\ Len(arp_requests) = 3
    /\ Len(arp_calls) = 3
    /\ arp_calls[1][5] \in FailIps
    /\ \A i \in 2..3 : \E n \in neigh : n[3] = arp_calls[i][5] /\ n[4] = arp_calls[i][6]

====
